---- MODULE Spec2Model ----
(***************************************************************************)
(* A model of the deterministic-inference control plane: the SGLang        *)
(* backend supervisor (backends/sglang.py), the OpenAI proxy handler       *)
(* (proxy/handler.py) and the environment snapshot (environment.py).       *)
(*                                                                         *)
(* Byte strings and texts are sequences of tokens (TLA+ strings); a JSON   *)
(* document is parsed and serialised token by token, the way json.loads    *)
(* and json.dumps do it, so that a round trip is computed, not assumed.    *)
(***************************************************************************)
EXTENDS Integers, Sequences, FiniteSets, TLC

(***************************************************************************)
(* Bounds of the model.                                                    *)
(***************************************************************************)
\* number of GPUs the environment collector may report
MaxGpus == 1
\* length of the exhaustively enumerated short upstream bodies
MaxShortLen == 1
\* number of child processes the supervisor may spawn in one run
MaxSpawn == 2
\* number of polls of the readiness loop before the startup timeout elapses
MaxPolls == 2
\* _wait_for_ready(): check_interval, the sleep of one iteration, in seconds
CheckInterval == 2
\* health_check(): the timeout of its probe, in seconds
ProbeTimeout == 5
\* stop_server(): the default of its timeout, in seconds
StopTimeout == 30
\* stop_server(): the wait that follows SIGKILL, in seconds
KillGrace == 5
\* the startup timeouts of the configuration: none at all, and one that
\* lets the loop run MaxPolls times
StartupTimeouts == {0, MaxPolls * CheckInterval}

(***************************************************************************)
(* Texts: tokens of a byte string.                                         *)
(***************************************************************************)
\* the double quote
Q == "\""
\* a backslash followed by a double quote, as json.dumps writes a quote
EQ == "\\\""
\* an escaped backslash followed by an escaped quote: json.dumps of EQ
EEQ == "\\\\\\\""
\* a byte that is not valid UTF-8
BadByte == "<ff>"
\* JSON insignificant whitespace
WS == " "

RECURSIVE Concat(_)
\* the concatenation of a sequence of texts
Concat(texts) ==
    IF texts = <<>> THEN <<>> ELSE Head(texts) \o Concat(Tail(texts))

RECURSIVE Join(_, _)
\* sep.join(texts)
Join(texts, sep) ==
    IF texts = <<>> THEN <<>>
    ELSE IF Len(texts) = 1 THEN texts[1]
    ELSE texts[1] \o sep \o Join(Tail(texts), sep)

\* bytes.decode("utf-8") succeeds iff no byte is invalid
DecodesAsUtf8(body) == \A i \in 1..Len(body) : body[i] # BadByte

(***************************************************************************)
(* JSON values, as json.loads builds them.  An object is a Python dict:    *)
(* a sequence of (key, value) pairs with distinct keys, in insertion order.*)
(***************************************************************************)
JNull == [t |-> "null", s |-> <<>>, items |-> <<>>]
JLit(tok) == [t |-> "lit", s |-> <<tok>>, items |-> <<>>]
JNum(toks) == [t |-> "num", s |-> toks, items |-> <<>>]
JStr(text) == [t |-> "str", s |-> text, items |-> <<>>]
JArr(vals) == [t |-> "arr", s |-> <<>>, items |-> vals]
JObj(pairs) == [t |-> "obj", s |-> <<>>, items |-> pairs]
Pair(k, v) == [key |-> k, val |-> v]

\* 1024 ** 2
MiB == 1048576
\* the largest status code, version part or GPU count written as a numeral
MaxNumeral == 600
\* the memory of a GPU of the model, in MiB
GpuMemoryMiB == 2
\* the decimal numerals of the model, as str() writes them
Numerals ==
    {ToString(n) : n \in 0..MaxNumeral} \cup {ToString(GpuMemoryMiB * MiB)}
IsDigits(tok) == tok \in Numerals
IsLiteral(tok) == tok \in {"true", "false"}

\* the keys of a dict
Keys(obj) == {obj.items[i].key : i \in 1..Len(obj.items)}
\* dict[key], for a key of the dict
Get(obj, k) ==
    obj.items[CHOOSE i \in 1..Len(obj.items) : obj.items[i].key = k].val

\* dict[key] = value: replaces the value in place, or appends the key
DictSet(pairs, k, v) ==
    IF \E i \in 1..Len(pairs) : pairs[i].key = k
    THEN [i \in 1..Len(pairs) |->
            IF pairs[i].key = k THEN Pair(k, v) ELSE pairs[i]]
    ELSE Append(pairs, Pair(k, v))

RECURSIVE DictFromPairs(_)
\* dict(pairs): a repeated key keeps its first position and its last value
DictFromPairs(pairs) ==
    IF pairs = <<>> THEN <<>>
    ELSE LET n == Len(pairs)
         IN DictSet(DictFromPairs(SubSeq(pairs, 1, n - 1)),
                    pairs[n].key, pairs[n].val)

(***************************************************************************)
(* json.loads                                                              *)
(***************************************************************************)
ParseFail == [ok |-> FALSE, val |-> JNull, pos |-> 0]
Parsed(v, p) == [ok |-> TRUE, val |-> v, pos |-> p]

RECURSIVE SkipWs(_, _)
SkipWs(txt, i) ==
    IF i <= Len(txt) /\ txt[i] = WS THEN SkipWs(txt, i + 1) ELSE i

\* the text a JSON escape stands for
Unescape(tok) ==
    CASE tok = EQ -> Q
      [] tok = EEQ -> EQ
      [] OTHER -> tok

\* the JSON escape of a character
Escape(tok) ==
    CASE tok = Q -> EQ
      [] tok = EQ -> EEQ
      [] OTHER -> tok

\* txt[i-1] opened a string: collect up to the closing quote
ScanString(txt, i) ==
    IF \A j \in i..Len(txt) : txt[j] # Q THEN ParseFail
    ELSE LET end == CHOOSE j \in i..Len(txt) :
                        /\ txt[j] = Q
                        /\ \A k \in i..(j - 1) : txt[k] # Q
         IN Parsed(JStr([k \in 1..(end - i) |-> Unescape(txt[i + k - 1])]), end + 1)

RECURSIVE ParseValue(_, _)
RECURSIVE ParseItems(_, _, _)
RECURSIVE ParseMembers(_, _, _)

\* the items of an array, the first one starting at txt[i]
ParseItems(txt, i, acc) ==
    LET r == ParseValue(txt, i)
    IN IF ~r.ok THEN ParseFail
       ELSE LET j == SkipWs(txt, r.pos)
                vals == Append(acc, r.val)
            IN IF j > Len(txt) THEN ParseFail
               ELSE IF txt[j] = "]" THEN Parsed(JArr(vals), j + 1)
               ELSE IF txt[j] = ","
                    THEN ParseItems(txt, SkipWs(txt, j + 1), vals)
               ELSE ParseFail

\* the members of an object, the first key starting at txt[i]
ParseMembers(txt, i, acc) ==
    IF i > Len(txt) \/ txt[i] # Q THEN ParseFail
    ELSE LET k == ScanString(txt, i + 1)
         IN IF ~k.ok THEN ParseFail
            ELSE LET c == SkipWs(txt, k.pos)
                 IN IF c > Len(txt) \/ txt[c] # ":" THEN ParseFail
                    ELSE LET r == ParseValue(txt, SkipWs(txt, c + 1))
                         IN IF ~r.ok THEN ParseFail
                            ELSE LET j == SkipWs(txt, r.pos)
                                     ps == Append(acc, Pair(k.val.s, r.val))
                                 IN IF j > Len(txt) THEN ParseFail
                                    ELSE IF txt[j] = "}"
                                         THEN Parsed(JObj(DictFromPairs(ps)), j + 1)
                                    ELSE IF txt[j] = ","
                                         THEN ParseMembers(txt, SkipWs(txt, j + 1), ps)
                                    ELSE ParseFail

\* the JSON value starting at txt[i]
ParseValue(txt, i) ==
    IF i > Len(txt) THEN ParseFail
    ELSE LET tok == txt[i]
         IN CASE tok = "null" -> Parsed(JNull, i + 1)
              [] IsLiteral(tok) -> Parsed(JLit(tok), i + 1)
              [] IsDigits(tok) ->
                    IF i + 2 <= Len(txt) /\ txt[i + 1] = "." /\ IsDigits(txt[i + 2])
                    THEN Parsed(JNum(<<tok, ".", txt[i + 2]>>), i + 3)
                    ELSE Parsed(JNum(<<tok>>), i + 1)
              [] tok = Q -> ScanString(txt, i + 1)
              [] tok = "[" ->
                    LET j == SkipWs(txt, i + 1)
                    IN IF j <= Len(txt) /\ txt[j] = "]"
                       THEN Parsed(JArr(<<>>), j + 1)
                       ELSE ParseItems(txt, j, <<>>)
              [] tok = "{" ->
                    LET j == SkipWs(txt, i + 1)
                    IN IF j <= Len(txt) /\ txt[j] = "}"
                       THEN Parsed(JObj(<<>>), j + 1)
                       ELSE ParseMembers(txt, j, <<>>)
              [] OTHER -> ParseFail

\* json.loads(text): one value, whitespace around it, nothing after it
Loads(txt) ==
    LET r == ParseValue(txt, SkipWs(txt, 1))
    IN IF r.ok /\ SkipWs(txt, r.pos) = Len(txt) + 1 THEN r ELSE ParseFail

(***************************************************************************)
(* json.dumps                                                              *)
(***************************************************************************)
EscapeText(text) == [i \in 1..Len(text) |-> Escape(text[i])]

RECURSIVE DumpsWith(_, _, _)
\* json.dumps(value, separators=(itemSep, keySep))
DumpsWith(v, itemSep, keySep) ==
    CASE v.t = "null" -> <<"null">>
      [] v.t = "lit" -> v.s
      [] v.t = "num" -> v.s
      [] v.t = "str" -> <<Q>> \o EscapeText(v.s) \o <<Q>>
      [] v.t = "arr" ->
            <<"[">> \o
            Join([i \in 1..Len(v.items) |->
                     DumpsWith(v.items[i], itemSep, keySep)], itemSep)
            \o <<"]">>
      [] v.t = "obj" ->
            <<"{">> \o
            Join([i \in 1..Len(v.items) |->
                     <<Q>> \o EscapeText(v.items[i].key) \o <<Q>> \o keySep \o
                     DumpsWith(v.items[i].val, itemSep, keySep)], itemSep)
            \o <<"}">>

\* json.dumps(value) with the default separators ", " and ": "
Dumps(v) == DumpsWith(v, <<",", WS>>, <<":", WS>>)

(***************************************************************************)
(* environment.py: the GPU environment snapshot                            *)
(***************************************************************************)
\* _format_cuda_version(raw_version)
FormatCudaVersion(raw_version) ==
    LET major == raw_version \div 1000
        minor == (raw_version % 1000) \div 10
        patch == raw_version % 10
    IN IF patch # 0
       THEN <<ToString(major), ".", ToString(minor), ".", ToString(patch)>>
       ELSE <<ToString(major), ".", ToString(minor)>>

\* GPUInfo.memory_total_mebibytes, for a whole number of MiB: a float
MemoryTotalMebibytes(gpu) ==
    JNum(<<ToString(gpu.memory_total_bytes \div MiB), ".", "0">>)

\* GPUEnvironment.to_dict()
ToDict(env) ==
    JObj(<<Pair(<<"driver_version">>, JStr(env.driver_version)),
           Pair(<<"cuda_version">>, JStr(env.cuda_version)),
           Pair(<<"gpu_count">>, JNum(<<ToString(env.gpu_count)>>)),
           Pair(<<"gpus">>,
                JArr([i \in 1..Len(env.gpus) |->
                        JObj(<<Pair(<<"index">>,
                                    JNum(<<ToString(env.gpus[i].index)>>)),
                               Pair(<<"name">>, JStr(env.gpus[i].name)),
                               Pair(<<"memory_total_bytes">>,
                                    JNum(<<ToString(env.gpus[i].memory_total_bytes)>>)),
                               Pair(<<"memory_total_mib">>,
                                    MemoryTotalMebibytes(env.gpus[i]))>>)]))>>)

\* GPUEnvironment.to_json(): compact separators
ToJson(env) == DumpsWith(ToDict(env), <<",">>, <<":">>)

\* what collect_gpu_environment() can return on a host with n GPUs
CollectGpuEnvironment(n, raw_cuda) ==
    [driver_version |-> <<"535">>,
     cuda_version |-> FormatCudaVersion(raw_cuda),
     gpu_count |-> n,
     gpus |-> [i \in 1..n |->
                 [index |-> i - 1, name |-> <<"H100">>,
                  memory_total_bytes |-> GpuMemoryMiB * MiB]]]

\* the raw CUDA driver version NVML reports on a host with n GPUs
RawCudaVersion(n) == IF n % 2 = 0 THEN 12020 ELSE 12041

\* the snapshots collect_gpu_environment_json() can return
Snapshots ==
    {ToJson(CollectGpuEnvironment(n, RawCudaVersion(n))) : n \in 0..MaxGpus}

(***************************************************************************)
(* HTTP messages                                                           *)
(***************************************************************************)
Header(n, v) == [name |-> n, value |-> v]

\* str.lower(), on the header names and media types of the model
Lower(tok) ==
    CASE tok = "Content-Type" -> "content-type"
      [] tok = "Content-Encoding" -> "content-encoding"
      [] tok = "Content-Length" -> "content-length"
      [] tok = "Transfer-Encoding" -> "transfer-encoding"
      [] tok = "Connection" -> "connection"
      [] tok = "Location" -> "location"
      [] tok = "Server" -> "server"
      [] tok = "Date" -> "date"
      [] tok = "Application/JSON" -> "application/json"
      [] OTHER -> tok

LowerText(text) == [i \in 1..Len(text) |-> Lower(text[i])]

\* needle in text, for a needle of one token
Contains(text, needle) == \E i \in 1..Len(text) : text[i] = needle

\* text.startswith(prefix)
StartsWith(text, prefix) ==
    Len(text) >= Len(prefix) /\ SubSeq(text, 1, Len(prefix)) = prefix

\* headers.get(name, ""): the first header of that name, case-insensitively
HeaderGet(headers, name) ==
    IF \E i \in 1..Len(headers) : Lower(headers[i].name) = Lower(name)
    THEN headers[CHOOSE i \in 1..Len(headers) :
                    /\ Lower(headers[i].name) = Lower(name)
                    /\ \A j \in 1..(i - 1) : Lower(headers[j].name) # Lower(name)].value
    ELSE <<>>

\* the values of all headers of that name
HeaderValues(headers, name) ==
    SelectSeq(headers, LAMBDA h : Lower(h.name) = Lower(name))

\* the media types an upstream response may declare; <<>> is no header
ContentTypes ==
    { <<>>,
      <<"application/json">>,
      <<"Application/JSON">>,
      <<"application/json", "; charset=utf-8">>,
      <<"application/vnd.api+json">>,
      <<"text/plain">>,
      <<"text/event-stream">> }

\* the tokens of the exhaustively enumerated bodies
Alphabet == {"{", "}", "[", "]", ":", ",", WS, Q, "1", "null", "true", "a", BadByte}

\* every text of at most n tokens
ShortTexts(n) == UNION {[1..k -> Alphabet] : k \in 0..n}

\* "k" as a JSON string
Lit(k) == <<Q, k, Q>>

\* upstream bodies chosen for the ways json.loads and json.dumps treat them
SampleBodies ==
    { <<"{">> \o Lit("id") \o <<":">> \o Lit("abc") \o <<"}">>,
      <<"{">> \o Lit("id") \o <<":", WS>> \o Lit("abc") \o <<"}">>,
      <<WS, "{", WS>> \o Lit("a") \o <<WS, ":", "1", ",">> \o Lit("b")
          \o <<":", "[", "1", ",", "{", "}", "]", "}", WS>>,
      <<"{">> \o Lit("environment") \o <<":">> \o Lit("x") \o <<",">>
          \o Lit("a") \o <<":", "1", "}">>,
      <<"{">> \o Lit("a") \o <<":", "1", ",">> \o Lit("a") \o <<":", "2", "}">>,
      <<"{">> \o Lit("a") \o <<":">> \o <<Q, "x", EQ, "y", Q>> \o <<"}">>,
      <<"{", "}">>,
      <<"[", "1", "]">>,
      <<"[", "{">> \o Lit("a") \o <<":", "1", "}", "]">>,
      Lit("a"),
      <<"1", ".", "2">>,
      <<"{">> \o Lit("a") \o <<":">>,
      <<"{">> \o Lit("a") \o <<":", "1", "}", "}">>,
      <<"{">> \o Lit("a") \o <<":", "1", ",", "}">>,
      <<"{">> \o Lit("a") \o <<":">> \o <<Q, BadByte, Q, "}">>,
      <<"data: ", "{", "}">> }

Bodies == SampleBodies \cup ShortTexts(MaxShortLen)

\* the bodies sent with the responses that vary status and headers
FewBodies ==
    { <<"{">> \o Lit("error") \o <<":">> \o Lit("rate limited") \o <<"}">>,
      <<"moved">>,
      <<>> }

SuccessStatuses == {200, 201}
RedirectStatuses == {302, 307}
ErrorStatuses == {304, 404, 429, 500}

\* the headers of an upstream response
UpstreamHeaders(ctype, cenc, chunked, loc, body) ==
    (IF ctype = <<>> THEN <<>> ELSE <<Header("Content-Type", ctype)>>)
    \o (IF cenc = <<>> THEN <<>> ELSE <<Header("Content-Encoding", cenc)>>)
    \o (IF loc THEN <<Header("Location", <<"http://127.0.0.1:30000", "/moved">>)>>
        ELSE <<>>)
    \o (IF chunked
        THEN <<Header("Transfer-Encoding", <<"chunked">>),
               Header("Connection", <<"close">>)>>
        ELSE <<Header("content-length", <<ToString(Len(body))>>)>>)

\* what the far end of the outbound call does: it answers, or the call fails
Outcome(kind, status, headers, body, follow) ==
    [kind |-> kind, status |-> status, headers |-> headers, body |-> body,
     follow |-> follow]

\* 200 responses over every media type and body
BodyOutcomes ==
    { Outcome("response", 200, UpstreamHeaders(ct, <<>>, FALSE, FALSE, b), b, "none") :
        ct \in ContentTypes, b \in Bodies }

\* responses over every status and header set
StatusOutcomes ==
    { Outcome("response", st, UpstreamHeaders(ct, ce, ch, FALSE, b), b, "none") :
        st \in SuccessStatuses \cup RedirectStatuses \cup ErrorStatuses,
        ct \in {<<"application/json">>, <<"text/plain">>},
        ce \in {<<>>, <<"gzip">>}, ch \in BOOLEAN, b \in FewBodies }

\* redirects that carry a Location, with what the new location then does
RedirectOutcomes ==
    { Outcome("response", st, UpstreamHeaders(<<"text/plain">>, <<>>, FALSE, TRUE, <<"moved">>),
              <<"moved">>, f) :
        st \in RedirectStatuses, f \in {"answers", "refused"} }

\* calls that get no response
FailedOutcomes ==
    { Outcome(k, 0, <<>>, <<>>, "none") :
        k \in {"refused", "connect_timeout", "read_timeout", "disconnected"} }

\* responses whose body never arrives in full: the far end sends the status
\* line and the headers, and dies
CutOutcomes ==
    LET full == <<"{">> \o Lit("error") \o <<":">> \o Lit("overloaded") \o <<"}">>
    IN { Outcome("cut", st,
                 UpstreamHeaders(<<"application/json">>, <<>>, FALSE, FALSE, full),
                 <<>>, "none") : st \in {200, 500} }

(***************************************************************************)
(* urllib.request.urlopen, as _proxy_to_backend calls it                   *)
(***************************************************************************)
\* the redirect codes the default opener follows for a POST, as a GET
FollowedRedirects == {301, 302, 303}

\* what the new location of a followed redirect answers to the GET
RedirectTargetBody == <<"{">> \o Lit("redirected") \o <<":", "true", "}">>

UrlResult(exc, status, headers, body, detail, requests) ==
    [exc |-> exc, status |-> status, headers |-> headers, body |-> body,
     detail |-> detail, requests |-> requests]

HasHeader(headers, name) ==
    \E i \in 1..Len(headers) : Lower(headers[i].name) = Lower(name)

\* urlopen(req, timeout=300): a response for 2xx, HTTPError for any other
\* status that is not a followed redirect, URLError when the connection or
\* the sending fails; a failure while waiting for, or reading, the response
\* is raised as it is (TimeoutError, RemoteDisconnected)
Urlopen(o) ==
    CASE o.kind = "refused" ->
            UrlResult("URLError", 0, <<>>, <<>>,
                      <<"<urlopen error [Errno 111] Connection refused>">>, 1)
      [] o.kind = "connect_timeout" ->
            UrlResult("URLError", 0, <<>>, <<>>, <<"<urlopen error timed out>">>, 1)
      [] o.kind = "read_timeout" ->
            UrlResult("TimeoutError", 0, <<>>, <<>>, <<"timed out">>, 1)
      [] o.kind = "disconnected" ->
            UrlResult("RemoteDisconnected", 0, <<>>, <<>>,
                      <<"Remote end closed connection without response">>, 1)
      [] o.kind = "cut" ->
            \* the read of the body fails: response.read() inside the try for
            \* a 2xx, e.read() inside the except clause for an HTTPError
            IF o.status >= 200 /\ o.status < 300
            THEN UrlResult("ConnectionResetError", 0, <<>>, <<>>,
                           <<"[Errno 104] Connection reset by peer">>, 1)
            ELSE UrlResult("HTTPErrorCut", o.status, o.headers, <<>>, <<>>, 1)
      [] o.kind = "response" ->
            IF o.status >= 200 /\ o.status < 300
            THEN UrlResult("none", o.status, o.headers, o.body, <<>>, 1)
            ELSE IF o.status \in FollowedRedirects /\ HasHeader(o.headers, "Location")
            THEN IF o.follow = "answers"
                 THEN UrlResult("none", 200,
                                UpstreamHeaders(<<"application/json">>, <<>>, FALSE,
                                                FALSE, RedirectTargetBody),
                                RedirectTargetBody, <<>>, 2)
                 ELSE UrlResult("URLError", 0, <<>>, <<>>,
                                <<"<urlopen error [Errno 111] Connection refused>">>, 2)
            ELSE UrlResult("HTTPError", o.status, o.headers, o.body, <<>>, 1)

(***************************************************************************)
(* proxy/handler.py: OpenAIProxyHandler                                    *)
(***************************************************************************)
CompletionsPath == <<"/v1/completions">>
ChatCompletionsPath == <<"/v1/chat/completions">>
HealthPath == <<"/health">>
\* Backend.base_url, for the default host and port
BaseUrl == <<"http://127.0.0.1:30000">>

\* the request paths of the model
Paths ==
    { CompletionsPath, ChatCompletionsPath, HealthPath,
      <<"/v1/completions", "-extra">>,
      <<"/v1/chat/completions", "X">>,
      <<"/health", "?x=1">>,
      <<"/v1/models">> }

Methods == {"GET", "POST", "PUT", "HEAD"}

\* send_response(code): the status line with the Server and Date headers
SendResponse(code) ==
    [status |-> code,
     headers |-> <<Header("Server", <<"BaseHTTP">>), Header("Date", <<"now">>)>>,
     body |-> <<>>]

SendHeader(r, n, v) == [r EXCEPT !.headers = Append(@, Header(n, v))]
Write(r, body) == [r EXCEPT !.body = @ \o body]

\* no response: the handler ended with an exception, or has not answered yet
NoResponse == [status |-> 0, headers |-> <<>>, body |-> <<>>]

\* _send_error_response(code, message, detail)
SendErrorResponse(code, message, detail) ==
    LET base == <<Pair(<<"code">>, JNum(<<ToString(code)>>)),
                  Pair(<<"message">>, JStr(message)),
                  Pair(<<"type">>, JStr(<<"proxy_error">>))>>
        error == IF detail # <<>>
                 THEN DictSet(base, <<"detail">>, JStr(detail))
                 ELSE base
        error_response == JObj(<<Pair(<<"error">>, JObj(error))>>)
    IN Write(SendHeader(SendResponse(code), "Content-Type", <<"application/json">>),
             Dumps(error_response))

\* BaseHTTPRequestHandler.send_error(501), for a method with no do_ method
SendUnsupportedMethod(method) ==
    LET r == SendHeader(SendHeader(SendResponse(501), "Connection", <<"close">>),
                        "Content-Type", <<"text/html;charset=utf-8">>)
    IN IF method = "HEAD" THEN r
       ELSE Write(r, <<"<html>", "Error code: 501", "</html>">>)

\* the test of do_POST and of _should_inject_environment on the path
IsCompletionRoute(path) ==
    StartsWith(path, CompletionsPath) \/ StartsWith(path, ChatCompletionsPath)

\* the test of do_GET on the path
IsHealthRoute(path) == path = HealthPath

\* _should_inject_environment()
ShouldInjectEnvironment(path, environment_info) ==
    IF environment_info = <<>> THEN FALSE ELSE IsCompletionRoute(path)

\* the first test of _inject_environment_payload
IsJsonContentType(content_type) ==
    Contains(LowerText(content_type), "application/json")

Returned(body) == [raised |-> FALSE, body |-> body]
Raised == [raised |-> TRUE, body |-> <<>>]

\* a variant that answers with the snapshot alone, dropping the payload
InjectEnvironmentAlone(body, content_type, environment_info) ==
    IF ~IsJsonContentType(content_type) THEN Returned(body)
    ELSE IF ~DecodesAsUtf8(body) THEN Returned(body)
    ELSE LET payload == Loads(body)
         IN IF ~payload.ok THEN Returned(body)
            ELSE IF payload.val.t # "obj" THEN Raised
            ELSE Returned(Dumps(JObj(<<Pair(<<"environment">>,
                                            JStr(environment_info))>>)))

\* a variant that injects whatever media type the response declares
InjectWhateverContentType(body, content_type, environment_info) ==
    IF ~DecodesAsUtf8(body) THEN Returned(body)
    ELSE LET payload == Loads(body)
         IN IF ~payload.ok THEN Returned(body)
            ELSE IF payload.val.t # "obj" THEN Raised
            ELSE Returned(Dumps(JObj(DictSet(payload.val.items, <<"environment">>,
                                             JStr(environment_info)))))

\* _inject_environment_payload(body, content_type): the new body, or the
\* TypeError of payload["environment"] = ... on a payload that is no dict
InjectEnvironmentPayload(body, content_type, environment_info) ==
    IF ~IsJsonContentType(content_type) THEN Returned(body)
    ELSE IF ~DecodesAsUtf8(body) THEN Returned(body)
    ELSE LET payload == Loads(body)
         IN IF ~payload.ok THEN Returned(body)
            ELSE IF payload.val.t # "obj" THEN Raised
            ELSE Returned(Dumps(JObj(DictSet(payload.val.items, <<"environment">>,
                                             JStr(environment_info)))))

\* the headers of a successful upstream response that are sent on
RelayedHeaders(headers, should_inject) ==
    SelectSeq(headers,
              LAMBDA h : /\ Lower(h.name) \notin
                              {"connection", "transfer-encoding", "content-length"}
                         /\ ~(Lower(h.name) = "content-encoding" /\ should_inject))

\* the headers of an upstream error response that are sent on
RelayedErrorHeaders(headers) ==
    SelectSeq(headers,
              LAMBDA h : Lower(h.name) \notin {"connection", "transfer-encoding"})

\* the message of the TypeError raised on a payload that is no dict
ItemAssignmentError == <<"object does not support item assignment">>

\* the body of "with urlopen(...) as response"
RelaySuccess(path, environment_info, res) ==
    LET should_inject == ShouldInjectEnvironment(path, environment_info)
        inj == IF should_inject
               THEN InjectEnvironmentPayload(res.body,
                                             HeaderGet(res.headers, "Content-Type"),
                                             environment_info)
               ELSE Returned(res.body)
    IN IF inj.raised
       THEN SendErrorResponse(500, <<"Internal Server Error">>, ItemAssignmentError)
       ELSE Write([SendResponse(res.status) EXCEPT
                      !.headers = @ \o RelayedHeaders(res.headers, should_inject)
                                    \o <<Header("Content-Length",
                                                <<ToString(Len(inj.body))>>)>>],
                  inj.body)

\* except urllib.error.HTTPError
RelayHTTPError(res) ==
    Write([SendResponse(res.status) EXCEPT
              !.headers = @ \o RelayedErrorHeaders(res.headers)],
          res.body)

\* _proxy_to_backend(), from the return or the exception of urlopen on
ProxyAnswer(path, environment_info, res) ==
    CASE res.exc = "none" -> RelaySuccess(path, environment_info, res)
      [] res.exc \in {"HTTPError", "HTTPErrorCut"} -> RelayHTTPError(res)
      [] res.exc = "URLError" ->
            SendErrorResponse(502, <<"Bad Gateway">>,
                              <<"Cannot connect to backend server: ">> \o res.detail)
      [] OTHER -> SendErrorResponse(500, <<"Internal Server Error">>, res.detail)

\* e.read() raises in the clause that handles HTTPError, after the status
\* line and the headers went out: no other clause of the try catches it
ProxyEscapes(res) == res.exc = "HTTPErrorCut"

\* a variant that forgets to ask whether the backend is running
BackendAvailableUnlessUnset(backend_set, running) == backend_set

\* the test that opens _proxy_to_backend: is there a running backend
BackendAvailable(backend_set, running) == backend_set /\ running

\* the body of _send_health_response
HealthBody(backend_set, backend_status, backend_healthy) ==
    Dumps(JObj(<<Pair(<<"status">>, JStr(<<"healthy">>)),
                 Pair(<<"backend">>,
                      JObj(<<Pair(<<"status">>, JStr(<<backend_status>>)),
                             Pair(<<"healthy">>,
                                  JLit(IF backend_healthy THEN "true" ELSE "false")),
                             Pair(<<"url">>,
                                  IF backend_set THEN JStr(BaseUrl) ELSE JNull)>>))>>))

\* a variant that reports a backend that is not ready as 503
HealthAnswerUnavailable(backend_set, backend_status, backend_healthy) ==
    Write(SendHeader(SendResponse(IF backend_status = "ready" THEN 200 ELSE 503),
                     "Content-Type", <<"application/json">>),
          HealthBody(backend_set, backend_status, backend_healthy))

\* _send_health_response(), from its two readings of the backend on
HealthAnswer(backend_set, backend_status, backend_healthy) ==
    Write(SendHeader(SendResponse(200), "Content-Type", <<"application/json">>),
          HealthBody(backend_set, backend_status, backend_healthy))

(***************************************************************************)
(* The state                                                               *)
(***************************************************************************)
VARIABLES
    \* SGLangBackend
    model_path,          \* the model path of the configuration, <<>> if empty
    startup_timeout,     \* self.startup_timeout, in seconds
    process,             \* self.process: 0 for None, or the pid of the child
    shutdown_requested,  \* self._shutdown_requested
    \* the operating system
    child,               \* pid -> "unborn", "starting", "serving" or "exited"
    foreign,             \* another program on the backend port: "none", or how
                         \* it answers GET /health: "ok" (200) or "error"
    sigterm,             \* pid -> SIGTERMs sent to the child's process group by
                         \* the calls of stop_server() now in progress
    sigkill,             \* pid -> SIGKILLs sent to the child by these calls
    \* the thread that owns the supervisor and calls start_server()
    ctlPc,               \* where that thread is in start_server()
    polls,               \* iterations of the readiness loop done so far
    probed,              \* health probes the readiness loop has issued
    elapsed,             \* seconds since the readiness loop was entered, up
                         \* to the return of start_server()
    startResult,         \* what the last start_server() returned, or "none"
    startPath,           \* the path the last start_server() took, or "none"
    \* the callers of stop_server(): the owning thread and another thread
    stopPc,              \* caller -> where it is in stop_server()
    pid_local,           \* caller -> the local `pid` of its stop_server()
    stopExit,            \* caller -> the path its last stop_server() returned by
    stopSaw,             \* caller -> the handle as its last stop_server() left it
    \* InferenceServer, and the main thread that runs cli.main()
    srvPc,               \* where the main thread is in the life of the server
    listener,            \* http_server: "none", "bound" (constructed), "serving"
                         \* (in the loop of serve_forever()), "stopped" (the
                         \* loop has ended) or "closed" (server_close())
    shutdown_request,    \* http_server: shutdown() asked the loop to end
    shutdown_event,      \* self._shutdown_event is set
    environment_json,    \* self.environment_json, <<>> for None
    trigPc,              \* shutdown trigger -> where its stop() is
    trigKind,            \* shutdown trigger -> "none", "signal" (the handler of
                         \* SIGINT/SIGTERM, run on top of the main thread) or
                         \* "thread" (stop() called by another thread)
    \* a thread that reads the supervisor: is_running(), health_check()
    probePc,             \* where it is in is_running()
    probeResult,         \* what its last call returned, or that it raised
    probeSent,           \* GET /health requests its call has issued
    collector_calls,     \* calls of collect_gpu_environment_json() so far
    collected_when,      \* "never", or whether start_server() had succeeded
                         \* when the collector ran: "before_start", "after_start"
    \* OpenAIProxyHandler, class attributes
    backend_set,         \* OpenAIProxyHandler.backend is not None
    environment_info,    \* OpenAIProxyHandler.environment_info, <<>> for None
    \* OpenAIProxyHandler, the request being handled
    hPc,                 \* "idle", "proxy_call", "health_check" or "done"
    request,             \* its method and path
    is_running_seen,     \* what is_running() returned to this handler
    backend_status,      \* _send_health_response: backend_status
    backend_healthy,     \* _send_health_response: backend_healthy
    upstream,            \* what the far end did with the outbound call
    outbound,            \* outbound requests sent for this request
    response,            \* what was sent to the client
    escaped              \* an exception left the handler of this request

stopVars == <<stopPc, pid_local, stopExit, stopSaw, sigterm, sigkill>>
supervisorVars == <<model_path, startup_timeout, process, shutdown_requested,
                    child, foreign, ctlPc, polls, probed, elapsed, startResult,
                    startPath, stopVars>>
serverVars == <<srvPc, listener, shutdown_request, shutdown_event,
                environment_json, collector_calls, collected_when, trigPc,
                trigKind>>
probeVars == <<probePc, probeResult, probeSent>>
classVars == <<backend_set, environment_info>>
handlerVars == <<hPc, request, is_running_seen, backend_status, backend_healthy,
                 upstream, outbound, response, escaped>>
vars == <<supervisorVars, serverVars, classVars, handlerVars, probeVars>>

Pids == 1..MaxSpawn
\* the callers of stop_server(): the owner of the supervisor, which starts
\* it, and the stop() of a first and of a repeated shutdown trigger
Callers == {"main", "other", "again"}
\* the shutdown triggers of the orchestrator, in the order they arrive
Triggers == Callers \ {"main"}
\* the two threads that use the supervisor alone
StopThreads == {"main", "other"}
NoRequest == [method |-> "", path |-> <<>>]
NoOutcome == Outcome("none", 0, <<>>, <<>>, "none")

\* the handler class before any request, and a worker with nothing to do
HandlerIdle ==
    /\ hPc = "idle"
    /\ request = NoRequest
    /\ is_running_seen = "unread"
    /\ backend_status = ""
    /\ backend_healthy = FALSE
    /\ upstream = NoOutcome
    /\ outbound = 0
    /\ response = NoResponse
    /\ escaped = FALSE

\* no stop_server() was ever called
StopIdle ==
    /\ stopPc = [c \in Callers |-> "idle"]
    /\ pid_local = [c \in Callers |-> 0]
    /\ stopExit = [c \in Callers |-> "none"]
    /\ stopSaw = [c \in Callers |-> "none"]
    /\ sigterm = [p \in Pids |-> 0]
    /\ sigkill = [p \in Pids |-> 0]

\* no reader of the supervisor is at work
ProbeIdle ==
    /\ probePc = "idle"
    /\ probeResult = "none"
    /\ probeSent = 0

\* no InferenceServer was constructed
ServerNew ==
    /\ srvPc = "new"
    /\ listener = "none"
    /\ shutdown_request = FALSE
    /\ shutdown_event = FALSE
    /\ environment_json = <<>>
    /\ trigPc = [t \in Triggers |-> "none"]
    /\ trigKind = [t \in Triggers |-> "none"]
    /\ collector_calls = 0
    /\ collected_when = "never"

Init ==
    /\ model_path \in {<<>>, <<"/models/m">>}
    /\ startup_timeout \in StartupTimeouts
    /\ probed = 0
    /\ elapsed = 0
    /\ process = 0
    /\ shutdown_requested = FALSE
    /\ child = [p \in Pids |-> "unborn"]
    /\ foreign = "none"
    /\ ctlPc = "idle"
    /\ polls = 0
    /\ startResult = "none"
    /\ startPath = "none"
    /\ StopIdle
    /\ ServerNew
    /\ backend_set = FALSE
    /\ environment_info = <<>>
    /\ HandlerIdle
    /\ ProbeIdle

(***************************************************************************)
(* backends/sglang.py: SGLangBackend                                       *)
(***************************************************************************)
Alive(p) == p # 0 /\ child[p] \in {"starting", "serving"}

\* is_running(): a child is tracked and poll() is None
IsRunning == process # 0 /\ Alive(process)

\* a child of the supervisor serves the backend port
Listening == \E p \in Pids : child[p] = "serving"

\* GET /health on the backend port is answered 200
HealthAnswers200 == Listening \/ foreign = "ok"

\* something answers GET /health on the backend port, with whatever status
PortAnswers == Listening \/ foreign # "none"

\* _is_port_in_use(): urlopen returned; an HTTPError, as any other failure
\* of the probe, makes it False
IsPortInUse == HealthAnswers200

\* what a GET /health probe with a short timeout can return: a 200 arrives
\* in time or too late, nothing else counts
ProbeResults == IF HealthAnswers200 THEN {TRUE, FALSE} ELSE {FALSE}

\* a variant of health_check() that does not compare the status with 200
HealthCheckAnyStatus(probe) == IsRunning

\* health_check(), for the result of the probe it issues when running
HealthCheck(probe) == IF ~IsRunning THEN FALSE ELSE probe

\* a variant of start_server() that leaves the child it gave up on alone
StartFailureNoCleanup(ready) ==
    IF ready THEN "return_true" ELSE "return_false"

\* start_server(), after _wait_for_ready(): return True, or stop_server()
\* and return False
StartFailureCleanup(ready) ==
    IF ready THEN "return_true" ELSE "stop_then_return_false"

\* a variant that starts over although a live child is tracked
AlreadyRunningIgnored(proc, running) == FALSE

\* start_server(): self.process is not None and self.is_running()
AlreadyRunning(proc, running) == proc # 0 /\ running

\* start_server(), up to the readiness loop
StartServer ==
    /\ ctlPc = "idle"
    /\ stopPc["main"] = "idle"
    /\ IF model_path = <<>>
       THEN /\ startResult' = "false"
            /\ startPath' = "no_model"
            /\ ctlPc' = "returned"
            /\ UNCHANGED <<process, child, polls>>
       ELSE IF AlreadyRunning(process, IsRunning)
       THEN /\ startResult' = "true"
            /\ startPath' = "already_running"
            /\ ctlPc' = "returned"
            /\ UNCHANGED <<process, child, polls>>
       ELSE IF IsPortInUse
       THEN \* a dead child's handle was dropped on the way
            /\ process' = 0
            /\ startResult' = "false"
            /\ startPath' = "port_in_use"
            /\ ctlPc' = "returned"
            /\ UNCHANGED <<child, polls>>
       ELSE \/ \* Popen raises: the except clause finds no process to stop
               /\ process' = 0
               /\ startResult' = "false"
               /\ startPath' = "popen_failed"
               /\ ctlPc' = "returned"
               /\ UNCHANGED <<child, polls>>
            \/ \* Popen returns the new child
               \E p \in Pids :
                 /\ child[p] = "unborn"
                 /\ \A q \in Pids : q < p => child[q] # "unborn"
                 /\ process' = p
                 /\ child' = [child EXCEPT ![p] = "starting"]
                 /\ ctlPc' = "wait_ready"
                 /\ polls' = 0
                 /\ startResult' = "none"
                 /\ startPath' = "spawned"
    /\ probed' = 0
    /\ elapsed' = 0
    /\ UNCHANGED <<model_path, startup_timeout, shutdown_requested, foreign,
                   stopVars, classVars, handlerVars>>

\* _wait_for_ready(): the test of its loop,
\* time.time() - start_time < self.startup_timeout
LoopContinues(spent, timeout) == spent < timeout

\* a variant of the loop that does not look at the child before it probes
ExitedUnexpectedlyUnseen(proc, ch) == FALSE

\* _wait_for_ready(): self.process and self.process.poll() is not None
ExitedUnexpectedly(proc, ch) == proc # 0 /\ ch[proc] = "exited"

\* one iteration of the loop of _wait_for_ready(), or its timeout, and what
\* start_server() does with the result.  An iteration lasts its sleep, and
\* the timeout of the probe on top when the probe gets no answer in time;
\* the child may exit between the poll() of the loop and the is_running()
\* of health_check(), which then issues no probe
WaitForReady ==
    /\ ctlPc = "wait_ready"
    /\ LET Return(ready) ==
               LET todo == StartFailureCleanup(ready)
               IN /\ ctlPc' = IF todo = "stop_then_return_false"
                              THEN "start_failed" ELSE "returned"
                  /\ startResult' = CASE todo = "return_true" -> "true"
                                      [] todo = "return_false" -> "false"
                                      [] OTHER -> startResult
                  /\ UNCHANGED <<polls, elapsed, child>>
           Sleep(probe_time) ==
               /\ polls' = polls + 1
               /\ elapsed' = elapsed + probe_time + CheckInterval
               /\ UNCHANGED <<ctlPc, startResult>>
       IN IF ~LoopContinues(elapsed, startup_timeout)
             \/ ExitedUnexpectedly(process, child)
          THEN Return(FALSE) /\ UNCHANGED probed
          ELSE \/ \E probe \in ProbeResults :
                    /\ probed' = IF IsRunning THEN probed + 1 ELSE probed
                    /\ IF HealthCheck(probe)
                       THEN Return(TRUE)
                       ELSE /\ \E late \in BOOLEAN :
                                 /\ late => IsRunning
                                 /\ Sleep(IF late THEN ProbeTimeout ELSE 0)
                            /\ UNCHANGED child
               \/ /\ IsRunning
                  /\ child' = [child EXCEPT ![process] = "exited"]
                  /\ Sleep(0)
                  /\ UNCHANGED probed
    /\ UNCHANGED <<model_path, startup_timeout, process, shutdown_requested,
                   foreign, startPath, stopVars, classVars, handlerVars>>

\* start_server() has returned to its caller: the count and the clock of
\* its readiness loop are gone with it
StartReturn ==
    /\ ctlPc = "returned"
    /\ ctlPc' = "idle"
    /\ pid_local' = [pid_local EXCEPT !["main"] = 0]
    /\ stopExit' = [stopExit EXCEPT !["main"] = "none"]
    /\ stopSaw' = [stopSaw EXCEPT !["main"] = "none"]
    /\ polls' = 0
    /\ probed' = 0
    /\ elapsed' = 0
    /\ UNCHANGED <<model_path, startup_timeout, process, shutdown_requested,
                   child, foreign, startResult, startPath,
                   stopPc, sigterm, sigkill, classVars, handlerVars>>

\* a variant that goes on without a process to stop
NoProcessTrackedNever(proc) == FALSE

\* the first test of stop_server(): self.process is None
NoProcessTracked(proc) == proc = 0

\* stop_server() returns to caller c by the path `exit`, leaving the handle
\* `proc` and the children `ch`
StopReturns(c, exit, proc, ch) ==
    /\ stopPc' = [stopPc EXCEPT ![c] = "returned"]
    /\ stopExit' = [stopExit EXCEPT ![c] = exit]
    /\ stopSaw' = [stopSaw EXCEPT ![c] =
                      IF proc = 0 THEN "absent"
                      ELSE IF ch[proc] \in {"starting", "serving"} THEN "running"
                      ELSE "tracked"]

\* a variant of the finally clause that resets the flag alone
StopFinallyKeepsHandle ==
    /\ process' = process
    /\ shutdown_requested' = FALSE

\* the finally clause of stop_server()
StopFinally ==
    /\ process' = 0
    /\ shutdown_requested' = FALSE

\* stop_server() is called by c, the owner of the supervisor (also from
\* start_server(), whose readiness loop failed) or the other thread: the
\* test of self.process
StopServerCall(c) ==
    /\ stopPc[c] = "idle"
    /\ c = "main" => ctlPc \in {"idle", "start_failed"}
    /\ IF NoProcessTracked(process)
       THEN StopReturns(c, "no_process", process, child)
       ELSE /\ stopPc' = [stopPc EXCEPT ![c] = "check_flag"]
            /\ UNCHANGED <<stopExit, stopSaw>>
    /\ UNCHANGED <<model_path, startup_timeout, process, shutdown_requested,
                   child, foreign, sigterm, sigkill, pid_local, ctlPc, polls,
                   probed, elapsed, startResult, startPath, classVars,
                   handlerVars>>

\* stop_server(): the test of self._shutdown_requested
StopCheckFlag(c) ==
    /\ stopPc[c] = "check_flag"
    /\ IF shutdown_requested
       THEN StopReturns(c, "coalesced", process, child)
       ELSE /\ stopPc' = [stopPc EXCEPT ![c] = "set_flag"]
            /\ UNCHANGED <<stopExit, stopSaw>>
    /\ UNCHANGED <<model_path, startup_timeout, process, shutdown_requested,
                   child, foreign, sigterm, sigkill, pid_local, ctlPc, polls,
                   probed, elapsed, startResult, startPath, classVars,
                   handlerVars>>

\* stop_server(): self._shutdown_requested = True
StopSetFlag(c) ==
    /\ stopPc[c] = "set_flag"
    /\ shutdown_requested' = TRUE
    /\ stopPc' = [stopPc EXCEPT ![c] = "signal"]
    /\ UNCHANGED <<model_path, startup_timeout, process, child, foreign,
                   sigterm, sigkill, pid_local, stopExit, stopSaw, ctlPc,
                   polls, probed, elapsed, startResult, startPath, classVars,
                   handlerVars>>

\* stop_server(), from the try to the wait: the handle may be gone by now
\* (AttributeError, caught and logged), the child may have exited already,
\* or SIGTERM goes to its process group
StopSignal(c) ==
    /\ stopPc[c] = "signal"
    /\ IF process = 0
       THEN /\ StopFinally
            /\ StopReturns(c, "error", process', child)
            /\ UNCHANGED <<sigterm, pid_local>>
       ELSE IF child[process] = "exited"
       THEN /\ StopFinally
            /\ StopReturns(c, "already_dead", process', child)
            /\ pid_local' = [pid_local EXCEPT ![c] = process]
            /\ UNCHANGED sigterm
       ELSE /\ sigterm' = [sigterm EXCEPT ![process] = @ + 1]
            /\ pid_local' = [pid_local EXCEPT ![c] = process]
            /\ stopPc' = [stopPc EXCEPT ![c] = "wait"]
            /\ UNCHANGED <<process, shutdown_requested, stopExit, stopSaw>>
    /\ UNCHANGED <<model_path, startup_timeout, child, foreign, sigkill,
                   ctlPc, polls, probed, elapsed, startResult, startPath,
                   classVars, handlerVars>>

\* a variant of the first wait that always runs into its timeout
ExitedWithinDeadlineNever(proc, ch) == FALSE

\* process.wait(timeout=timeout) returns: the child has exited
ExitedWithinDeadline(proc, ch) == ch[proc] = "exited"

\* the time a stop_server() that start_server() called adds to the call of
\* start_server(): none counted for a child that exits on SIGTERM, the
\* deadline for one that does not, and the second wait for one that
\* outlives SIGKILL
StopSpends(c, spent) ==
    elapsed' = IF c = "main" /\ ctlPc = "start_failed"
               THEN elapsed + spent ELSE elapsed

\* stop_server(), from the wait on: the child has exited within the deadline,
\* or the deadline passes and SIGKILL follows, which the child may survive
\* for longer than the second wait; the finally clause
StopWait(c) ==
    /\ stopPc[c] = "wait"
    /\ StopFinally
    /\ IF process = 0
       THEN /\ StopReturns(c, "error", process', child)
            /\ StopSpends(c, 0)
            /\ UNCHANGED <<child, sigkill>>
       ELSE IF ExitedWithinDeadline(process, child)
       THEN /\ StopReturns(c, "stopped", process', child)
            /\ StopSpends(c, 0)
            /\ UNCHANGED <<child, sigkill>>
       ELSE LET target == IF Alive(pid_local[c]) THEN pid_local[c] ELSE process
            IN /\ sigkill' = [sigkill EXCEPT ![target] = @ + 1]
               /\ \E survives \in BOOLEAN :
                    /\ child' = IF survives THEN child
                                ELSE [child EXCEPT ![target] = "exited"]
                    /\ StopSpends(c, IF survives THEN StopTimeout + KillGrace
                                     ELSE StopTimeout)
                    /\ StopReturns(c, IF survives THEN "survived" ELSE "killed",
                                   process', child')
    /\ UNCHANGED <<model_path, startup_timeout, foreign, sigterm, pid_local,
                   ctlPc, polls, probed, startResult, startPath, classVars,
                   handlerVars>>

\* stop_server() has returned to c; start_server() that called it after a
\* failed readiness loop returns False
StopDone(c) ==
    /\ stopPc[c] = "returned"
    /\ stopPc' = [stopPc EXCEPT ![c] = "idle"]
    /\ IF c = "main" /\ ctlPc = "start_failed"
       THEN /\ ctlPc' = "returned"
            /\ startResult' = "false"
            /\ UNCHANGED <<pid_local, stopExit, stopSaw>>
       ELSE /\ pid_local' = [pid_local EXCEPT ![c] = 0]
            /\ stopExit' = [stopExit EXCEPT ![c] = "none"]
            /\ stopSaw' = [stopSaw EXCEPT ![c] = "none"]
            /\ UNCHANGED <<ctlPc, startResult>>
    /\ IF \A d \in Callers \ {c} : stopPc[d] = "idle"
       THEN \* no stop_server() is in progress any more: its signals are history
            /\ sigterm' = [p \in Pids |-> 0]
            /\ sigkill' = [p \in Pids |-> 0]
       ELSE UNCHANGED <<sigterm, sigkill>>
    /\ UNCHANGED <<model_path, startup_timeout, process, shutdown_requested,
                   child, foreign, polls, probed, elapsed, startPath,
                   classVars, handlerVars>>

\* the child finishes loading and serves its port, if the port is free
ChildBecomesReady(p) ==
    /\ child[p] = "starting"
    /\ ~PortAnswers
    /\ child' = [child EXCEPT ![p] = "serving"]
    /\ UNCHANGED <<model_path, startup_timeout, process, shutdown_requested,
                   foreign, ctlPc, polls, probed, elapsed, startResult,
                   startPath, stopVars, classVars, handlerVars>>

\* a variant in which a monitor notices the exit and drops the handle
ChildExitsMonitored(p) ==
    /\ Alive(p)
    /\ child' = [child EXCEPT ![p] = "exited"]
    /\ process' = IF process = p THEN 0 ELSE process
    /\ UNCHANGED <<model_path, startup_timeout, shutdown_requested, foreign,
                   ctlPc, polls, probed, elapsed, startResult, startPath,
                   stopVars, classVars, handlerVars>>

\* the child exits: by itself, or on a signal it was sent
ChildExits(p) ==
    /\ Alive(p)
    /\ child' = [child EXCEPT ![p] = "exited"]
    /\ UNCHANGED <<model_path, startup_timeout, process, shutdown_requested,
                   foreign, ctlPc, polls, probed, elapsed, startResult,
                   startPath, stopVars, classVars, handlerVars>>

\* the calls by which a thread reads the supervisor
ProbeCalls == {"is_running", "health_check"}

\* is_running(), called by itself or by health_check(): the test of
\* self.process
ProbeCall(call) ==
    /\ probePc = "idle"
    /\ IF process = 0
       THEN /\ probePc' = "returned"
            /\ probeResult' = "false"
       ELSE /\ probePc' = call
            /\ probeResult' = "none"
    /\ probeSent' = 0
    /\ UNCHANGED <<supervisorVars, classVars, handlerVars>>

\* is_running(): self.process is read again for poll(), and is None by now
\* (AttributeError, which neither is_running() nor health_check() catches),
\* or is a child that runs or has exited; health_check() goes on to its
\* GET /health
ProbePoll ==
    /\ probePc \in ProbeCalls
    /\ probePc' = "returned"
    /\ IF process = 0
       THEN /\ probeResult' = "raised"
            /\ UNCHANGED probeSent
       ELSE IF ~Alive(process)
       THEN /\ probeResult' = "false"
            /\ UNCHANGED probeSent
       ELSE IF probePc = "is_running"
       THEN /\ probeResult' = "true"
            /\ UNCHANGED probeSent
       ELSE /\ probeSent' = probeSent + 1
            /\ \E probe \in ProbeResults :
                 probeResult' = IF HealthCheck(probe) THEN "true" ELSE "false"
    /\ UNCHANGED <<supervisorVars, classVars, handlerVars>>

\* the reader has its answer
ProbeReturn ==
    /\ probePc = "returned"
    /\ probePc' = "idle"
    /\ probeResult' = "none"
    /\ probeSent' = 0
    /\ UNCHANGED <<supervisorVars, classVars, handlerVars>>

(***************************************************************************)
(* proxy/handler.py: the handling of one request                           *)
(***************************************************************************)
\* the handler is left, by return or by an exception nothing catches
\* (`esc`): `r` went to the client
AnswerOrEscape(r, esc) ==
    /\ response' = r
    /\ escaped' = esc
    /\ hPc' = "done"

\* the handler returns: `r` went to the client
Answer(r) == AnswerOrEscape(r, FALSE)

\* handle_one_request(): dispatch to do_GET or do_POST, up to the first
\* outbound call; a method with no do_ method is answered by send_error(501)
HandleRequest(method, path) ==
    /\ hPc = "idle"
    /\ request' = [method |-> method, path |-> path]
    /\ upstream' = NoOutcome
    /\ outbound' = 0
    /\ backend_healthy' = FALSE
    /\ CASE method = "POST" ->
              IF IsCompletionRoute(path)
              THEN /\ is_running_seen' =
                         IF ~backend_set THEN "unread"
                         ELSE IF IsRunning THEN "true" ELSE "false"
                   /\ backend_status' = ""
                   /\ IF ~BackendAvailable(backend_set, IsRunning)
                      THEN Answer(SendErrorResponse(
                                      503, <<"Service Unavailable">>,
                                      <<"Backend inference server is not running">>))
                      ELSE /\ hPc' = "proxy_call"
                           /\ response' = NoResponse
                           /\ escaped' = FALSE
              ELSE /\ is_running_seen' = "unread"
                   /\ backend_status' = ""
                   /\ Answer(SendErrorResponse(
                                 404, <<"Not Found">>,
                                 <<"Endpoint ">> \o path \o <<" not supported">>))
         [] method = "GET" ->
              IF IsHealthRoute(path)
              THEN /\ is_running_seen' =
                         IF ~backend_set THEN "unread"
                         ELSE IF IsRunning THEN "true" ELSE "false"
                   /\ backend_status' =
                         IF backend_set /\ IsRunning THEN "ready" ELSE "not_ready"
                   /\ hPc' = "health_check"
                   /\ response' = NoResponse
                   /\ escaped' = FALSE
              ELSE /\ is_running_seen' = "unread"
                   /\ backend_status' = ""
                   /\ Answer(SendErrorResponse(
                                 404, <<"Not Found">>,
                                 <<"Endpoint ">> \o path \o <<" not found">>))
         [] OTHER ->
              /\ is_running_seen' = "unread"
              /\ backend_status' = ""
              /\ Answer(SendUnsupportedMethod(method))
    /\ UNCHANGED <<supervisorVars, classVars>>

\* the outcomes an outbound call can have: nothing but a listening child
\* answers on the backend port
PossibleOutcome(o) ==
    Listening \/ o.kind \in {"refused", "connect_timeout"}

\* _proxy_to_backend(), from urlopen on: the call returns or raises, and the
\* response, or the error, is written to the client
ProxyReturn(o) ==
    /\ hPc = "proxy_call"
    /\ PossibleOutcome(o)
    /\ upstream' = o
    /\ outbound' = Urlopen(o).requests
    /\ AnswerOrEscape(ProxyAnswer(request.path, environment_info, Urlopen(o)),
                      ProxyEscapes(Urlopen(o)))
    /\ UNCHANGED <<request, is_running_seen, backend_status, backend_healthy,
                   supervisorVars, classVars>>

\* _send_health_response(), from health_check() on
HealthReturn ==
    /\ hPc = "health_check"
    /\ \E probe \in ProbeResults :
         LET healthy == IF backend_set THEN HealthCheck(probe) ELSE FALSE
         IN /\ backend_healthy' = healthy
            /\ Answer(HealthAnswer(backend_set, backend_status, healthy))
    /\ UNCHANGED <<request, is_running_seen, backend_status, upstream, outbound,
                   supervisorVars, classVars>>

\* the handler returns and the connection is closed; the worker is free
FinishRequest ==
    /\ hPc = "done"
    /\ hPc' = "idle"
    /\ request' = NoRequest
    /\ is_running_seen' = "unread"
    /\ backend_status' = ""
    /\ backend_healthy' = FALSE
    /\ upstream' = NoOutcome
    /\ outbound' = 0
    /\ response' = NoResponse
    /\ escaped' = FALSE
    /\ UNCHANGED <<supervisorVars, classVars>>

(***************************************************************************)
(* The upstream outcomes of the two specifications                         *)
(***************************************************************************)
RelayOutcomes ==
    BodyOutcomes \cup StatusOutcomes \cup RedirectOutcomes \cup FailedOutcomes
    \cup CutOutcomes

JsonHeaders(b) == UpstreamHeaders(<<"application/json">>, <<>>, FALSE, FALSE, b)

\* a few outcomes of each kind, for the runs of the whole system
SystemOutcomes ==
    LET completion == <<"{">> \o Lit("id") \o <<":">> \o Lit("abc") \o <<"}">>
        limited == <<"{">> \o Lit("error") \o <<":">> \o Lit("rate limited") \o <<"}">>
    IN FailedOutcomes \cup RedirectOutcomes \cup CutOutcomes \cup
       { Outcome("response", 200, JsonHeaders(completion), completion, "none"),
         Outcome("response", 200,
                 UpstreamHeaders(<<"text/event-stream">>, <<>>, TRUE, FALSE,
                                 <<"data: ", "{", "}">>),
                 <<"data: ", "{", "}">>, "none"),
         Outcome("response", 429, JsonHeaders(limited), limited, "none"),
         Outcome("response", 500,
                 UpstreamHeaders(<<"text/plain">>, <<>>, FALSE, FALSE, <<"moved">>),
                 <<"moved">>, "none") }

(***************************************************************************)
(* server.py: InferenceServer                                              *)
(***************************************************************************)
listenerVars == <<listener, shutdown_request>>
snapshotVars == <<environment_json, collector_calls, collected_when>>
triggerVars == <<trigPc, trigKind>>

\* the stop() of trigger t was called and has not come to its end
Active(t) == trigPc[t] \notin {"none", "done", "unwound"}

\* the stop() of trigger t runs in a signal handler, on the main thread
OnMainThread(t) == trigKind[t] = "signal" /\ Active(t)

\* Python runs a signal handler in the main thread, on top of whatever that
\* thread was doing, which goes on when the handler returns; the handler of
\* a later signal runs on top of the handler of an earlier one
Suspended(x) ==
    CASE x = "main" -> \E t \in Triggers : OnMainThread(t)
      [] x = "other" -> OnMainThread("other") /\ OnMainThread("again")
      [] OTHER -> FALSE

\* a variant of the constructor that calls the collector for each of the
\* two places it stores the snapshot in
InferenceServerInitTwoSnapshots ==
    /\ srvPc = "new"
    /\ ~backend_set
    /\ hPc = "idle"
    /\ backend_set' = TRUE
    /\ environment_json' \in Snapshots
    /\ environment_info' \in Snapshots
    /\ collector_calls' = collector_calls + 2
    /\ collected_when' = IF startResult = "true" THEN "after_start"
                         ELSE "before_start"
    /\ srvPc' = "constructed"
    /\ UNCHANGED <<listenerVars, shutdown_event, triggerVars, supervisorVars,
                   handlerVars, probeVars>>

\* a variant of the constructor that goes on when the collection has failed
InferenceServerInitDegraded ==
    /\ srvPc = "new"
    /\ ~backend_set
    /\ hPc = "idle"
    /\ backend_set' = TRUE
    /\ environment_json' \in Snapshots \cup {<<>>}
    /\ environment_info' = environment_json'
    /\ collector_calls' = collector_calls + 1
    /\ collected_when' = IF startResult = "true" THEN "after_start"
                         ELSE "before_start"
    /\ srvPc' = "constructed"
    /\ UNCHANGED <<listenerVars, shutdown_event, triggerVars, supervisorVars,
                   handlerVars, probeVars>>

\* InferenceServer.__init__: _init_backend() sets the handler's backend, then
\* _collect_environment_info() keeps the snapshot and sets the handler's, or
\* raises and leaves both None, and no server object exists; the constructor
\* runs before start() binds a listener, so during no request
InferenceServerInit ==
    /\ srvPc = "new"
    /\ ~backend_set
    /\ hPc = "idle"
    /\ backend_set' = TRUE
    /\ environment_json' \in Snapshots \cup {<<>>}
    /\ environment_info' = environment_json'
    /\ collector_calls' = collector_calls + 1
    /\ collected_when' = IF startResult = "true" THEN "after_start"
                         ELSE "before_start"
    /\ srvPc' = IF environment_json' = <<>> THEN "aborted" ELSE "constructed"
    /\ UNCHANGED <<listenerVars, shutdown_event, triggerVars, supervisorVars,
                   handlerVars, probeVars>>

\* a variant of start() that goes on whatever start_server() returned
BackendStartedAnyway(result) == TRUE

\* start(): the test of what self.backend.start_server() returned
BackendStarted(result) == result = "true"

\* start(): the call of self.backend.start_server()
ServerStart ==
    /\ srvPc = "constructed"
    /\ ~Suspended("main")
    /\ StartServer
    /\ srvPc' = "starting"
    /\ UNCHANGED <<listenerVars, shutdown_event, snapshotVars, triggerVars,
                   probeVars>>

\* start(), while start_server() runs: its readiness loop, and the
\* stop_server() it calls when the loop failed
ServerStarting ==
    /\ srvPc = "starting"
    /\ ~Suspended("main")
    /\ \/ WaitForReady
       \/ /\ ctlPc = "start_failed"
          /\ StopServerCall("main")
       \/ StopCheckFlag("main")
       \/ StopSetFlag("main")
       \/ StopSignal("main")
       \/ StopWait("main")
       \/ StopDone("main")
    /\ UNCHANGED <<serverVars, probeVars>>

\* start(), from the return of start_server() on: False if the backend did
\* not start; else HTTPServer(...) binds the listener, or raises and the
\* except clause is entered
ServerBind ==
    /\ srvPc = "starting"
    /\ ~Suspended("main")
    /\ StartReturn
    /\ IF ~BackendStarted(startResult)
       THEN /\ srvPc' = "failed"
            /\ UNCHANGED listener
       ELSE \/ /\ listener' = "bound"
               /\ srvPc' = "bound"
            \/ /\ srvPc' = "bind_failed"
               /\ UNCHANGED listener
    /\ UNCHANGED <<shutdown_request, shutdown_event, snapshotVars, triggerVars,
                   probeVars>>

\* start(): the serving thread is created and started, and start() returns
\* True; main() calls wait_forever()
ServerThreadStart ==
    /\ srvPc = "bound"
    /\ ~Suspended("main")
    /\ srvPc' = "started"
    /\ UNCHANGED <<listenerVars, shutdown_event, snapshotVars, triggerVars,
                   supervisorVars, classVars, handlerVars, probeVars>>

\* start(), the except clause: self.backend.stop_server(), return False
ServerBindFailed ==
    /\ ~Suspended("main")
    /\ \/ /\ srvPc = "bind_failed"
          /\ StopServerCall("main")
          /\ srvPc' = "bind_failed_stopping"
       \/ /\ srvPc = "bind_failed_stopping"
          /\ \/ StopCheckFlag("main")
             \/ StopSetFlag("main")
             \/ StopSignal("main")
             \/ StopWait("main")
          /\ UNCHANGED srvPc
       \/ /\ srvPc = "bind_failed_stopping"
          /\ StopDone("main")
          /\ srvPc' = "failed"
    /\ UNCHANGED <<listenerVars, shutdown_event, snapshotVars, triggerVars,
                   probeVars>>

\* a variant of the loop of wait_forever() that does not look at the event
WaitForeverEndsAnyway(event) == TRUE

\* wait_forever(): the test of its loop
WaitForeverEnds(event) == event

\* wait_forever() returns, and main() returns 0
WaitForever ==
    /\ srvPc = "started"
    /\ ~Suspended("main")
    /\ WaitForeverEnds(shutdown_event)
    /\ srvPc' = "returned"
    /\ UNCHANGED <<listenerVars, shutdown_event, snapshotVars, triggerVars,
                   supervisorVars, classVars, handlerVars, probeVars>>

\* the serving thread runs once start() has started it
ThreadStarted == srvPc \in {"started", "returned", "exited"}

\* _serve_forever(): the serving thread enters serve_forever(), whose loop
\* does not run once if shutdown() was called before
ServeForever ==
    /\ ThreadStarted
    /\ listener = "bound"
    /\ IF shutdown_request
       THEN /\ listener' = "stopped"
            /\ shutdown_request' = FALSE
       ELSE /\ listener' = "serving"
            /\ UNCHANGED shutdown_request
    /\ UNCHANGED <<srvPc, shutdown_event, snapshotVars, triggerVars,
                   supervisorVars, classVars, handlerVars, probeVars>>

\* a variant of the loop that ends while a request is being handled
LoopMayEndAnyway(h) == TRUE

\* the loop of serve_forever() handles a request in the serving thread
\* itself: it tests the flag of shutdown() between two requests
LoopMayEnd(h) == h = "idle"

\* serve_forever() finds the flag of shutdown() set and returns
ServeForeverEnds ==
    /\ listener = "serving"
    /\ shutdown_request
    /\ LoopMayEnd(hPc)
    /\ listener' = "stopped"
    /\ shutdown_request' = FALSE
    /\ UNCHANGED <<srvPc, shutdown_event, snapshotVars, triggerVars,
                   supervisorVars, classVars, handlerVars, probeVars>>

\* the states of the main thread in which a signal finds the handlers of
\* setup_signal_handlers() installed and main() still running
SignalStates ==
    {"constructed", "starting", "bound", "started", "bind_failed",
     "bind_failed_stopping"}

\* the state of the main thread in which a thread of the embedding program
\* calls stop(): start() has returned True
ThreadStopStates == {"started"}

\* stop() is called for trigger t: by signal_handler(), or by another
\* thread; self._shutdown_event.set()
ServerStop(t, kind) ==
    /\ trigPc[t] = "none"
    /\ t = "again" => trigPc["other"] # "none"
    /\ \/ kind = "signal" /\ srvPc \in SignalStates
       \/ kind = "thread" /\ srvPc \in ThreadStopStates
    /\ trigKind' = [trigKind EXCEPT ![t] = kind]
    /\ trigPc' = [trigPc EXCEPT ![t] = "shutdown"]
    /\ shutdown_event' = TRUE
    /\ UNCHANGED <<srvPc, listenerVars, snapshotVars, supervisorVars, classVars,
                   handlerVars, probeVars>>

\* stop(): `if self.http_server:`, and http_server.shutdown() up to its wait
ServerShutdown(t) ==
    /\ trigPc[t] = "shutdown"
    /\ ~Suspended(t)
    /\ IF listener = "none"
       THEN /\ trigPc' = [trigPc EXCEPT ![t] = "stop_backend"]
            /\ UNCHANGED shutdown_request
       ELSE /\ trigPc' = [trigPc EXCEPT ![t] = "shutdown_wait"]
            /\ shutdown_request' = (listener \in {"bound", "serving"})
    /\ UNCHANGED <<srvPc, listener, shutdown_event, snapshotVars, trigKind,
                   supervisorVars, classVars, handlerVars, probeVars>>

\* a variant of shutdown() that does not wait for the loop
ListenerShutDownAnyway(l) == TRUE

\* shutdown() waits for the event serve_forever() sets when it returns
ListenerShutDown(l) == l \in {"stopped", "closed"}

\* stop(): shutdown() returns, and http_server.server_close()
ServerClose(t) ==
    /\ trigPc[t] = "shutdown_wait"
    /\ ~Suspended(t)
    /\ ListenerShutDown(listener)
    /\ listener' = "closed"
    /\ trigPc' = [trigPc EXCEPT ![t] = "stop_backend"]
    /\ UNCHANGED <<srvPc, shutdown_request, shutdown_event, snapshotVars,
                   trigKind, supervisorVars, classVars, handlerVars, probeVars>>

\* stop(): self.backend.stop_server()
ServerStopBackend(t) ==
    /\ ~Suspended(t)
    /\ \/ /\ trigPc[t] = "stop_backend"
          /\ StopServerCall(t)
          /\ trigPc' = [trigPc EXCEPT ![t] = "stopping"]
       \/ /\ trigPc[t] = "stopping"
          /\ \/ StopCheckFlag(t)
             \/ StopSetFlag(t)
             \/ StopSignal(t)
             \/ StopWait(t)
          /\ UNCHANGED trigPc
    /\ UNCHANGED <<srvPc, listenerVars, shutdown_event, snapshotVars, trigKind,
                   probeVars>>

\* the calls of stop_server() that sys.exit() in the handler of trigger t
\* ends: those the main thread and the handlers below t were in
Unwound(t) ==
    {c \in Callers \ {t} :
        /\ c = "main" \/ trigKind[c] = "signal"
        /\ stopPc[c] \notin {"idle", "returned"}}

\* the call of stop_server() by c is inside the try statement
InTry(c) == stopPc[c] \in {"signal", "wait"}

\* stop() returns.  In another thread that is all; signal_handler() goes on
\* to sys.exit(0), and SystemExit leaves every frame of the main thread,
\* through the finally clause of a stop_server() it was in the try of
ServerStopReturns(t) ==
    /\ trigPc[t] = "stopping"
    /\ stopPc[t] = "returned"
    /\ ~Suspended(t)
    /\ IF trigKind[t] = "thread"
       THEN /\ trigPc' = [trigPc EXCEPT ![t] = "done"]
            /\ UNCHANGED <<srvPc, process, shutdown_requested, stopPc, stopExit,
                           stopSaw>>
       ELSE /\ trigPc' = [u \in Triggers |->
                            IF u = t THEN "done"
                            ELSE IF OnMainThread(u) THEN "unwound"
                            ELSE trigPc[u]]
            /\ srvPc' = "exited"
            /\ IF \E c \in Unwound(t) : InTry(c)
               THEN StopFinally
               ELSE UNCHANGED <<process, shutdown_requested>>
            /\ stopPc' = [c \in Callers |->
                            IF c \in Unwound(t) THEN "returned" ELSE stopPc[c]]
            /\ stopExit' = [c \in Callers |->
                              IF c \in Unwound(t) THEN "interrupted"
                              ELSE stopExit[c]]
            /\ stopSaw' = [c \in Callers |->
                             IF c \notin Unwound(t) THEN stopSaw[c]
                             ELSE IF process' = 0 THEN "absent"
                             ELSE IF Alive(process') THEN "running"
                             ELSE "tracked"]
    /\ UNCHANGED <<listenerVars, shutdown_event, snapshotVars, trigKind,
                   model_path, startup_timeout, child, foreign, sigterm, sigkill,
                   pid_local, ctlPc, polls, probed, elapsed, startResult,
                   startPath, classVars, handlerVars,
                   probeVars>>

\* the loop of serve_forever() accepts a connection and handles its request
ServerDispatch(method, path) ==
    /\ listener = "serving"
    /\ ~shutdown_request
    /\ HandleRequest(method, path)
    /\ UNCHANGED <<serverVars, probeVars>>

(***************************************************************************)
(* The supervisor, its owner, the children and the handler class, each     *)
(* free to act: whatever a program built from these parts can do           *)
(***************************************************************************)
\* the requests and the upstream outcomes of this composition: one of each
\* kind the handler tells apart
PartsRequests ==
    { <<"POST", CompletionsPath>>, <<"POST", ChatCompletionsPath>>,
      <<"GET", HealthPath>>, <<"GET", <<"/v1/models">> >>, <<"PUT", CompletionsPath>> }

PartsOutcomes ==
    { o \in SystemOutcomes :
        \/ o.kind \in {"refused", "read_timeout"}
        \/ o.kind = "response" /\ o.status \in {200, 429} }

Next ==
    \/ InferenceServerInit
    \/ /\ \/ StartServer
          \/ WaitForReady
          \/ StartReturn
          \/ StopServerCall("main")
          \/ StopCheckFlag("main")
          \/ StopSetFlag("main")
          \/ StopSignal("main")
          \/ StopWait("main")
          \/ StopDone("main")
          \/ \E p \in Pids : ChildBecomesReady(p)
          \/ \E p \in Pids : ChildExits(p)
          \/ \E r \in PartsRequests : HandleRequest(r[1], r[2])
          \/ \E o \in PartsOutcomes : ProxyReturn(o)
          \/ HealthReturn
          \/ FinishRequest
       /\ UNCHANGED <<serverVars, probeVars>>

Spec == Init /\ [][Next]_vars

(***************************************************************************)
(* The handler alone, over every upstream outcome.  The inputs are drawn   *)
(* in the initial state: a supervisor that was never started, is ready, or *)
(* was stopped, and a handler class with or without backend and snapshot.  *)
(***************************************************************************)
RelayInit ==
    /\ model_path = <<"/models/m">>
    /\ startup_timeout = MaxPolls * CheckInterval
    /\ probed = 0
    /\ elapsed = 0
    /\ shutdown_requested = FALSE
    /\ foreign = "none"
    /\ ctlPc = "idle"
    /\ polls = 0
    /\ StopIdle
    /\ \/ /\ process = 0
          /\ child = [p \in Pids |-> "unborn"]
          /\ startResult = "none"
          /\ startPath = "none"
       \/ /\ process = 1
          /\ child = [p \in Pids |-> IF p = 1 THEN "serving" ELSE "unborn"]
          /\ startResult = "true"
          /\ startPath = "spawned"
       \/ /\ process = 0
          /\ child = [p \in Pids |-> IF p = 1 THEN "exited" ELSE "unborn"]
          /\ startResult = "true"
          /\ startPath = "spawned"
    /\ \/ /\ backend_set = FALSE
          /\ environment_info = <<>>
       \/ /\ backend_set = TRUE
          /\ environment_info \in Snapshots \cup {<<>>}
    /\ srvPc = "started"
    /\ listener = "serving"
    /\ shutdown_request = FALSE
    /\ shutdown_event = FALSE
    /\ environment_json = environment_info
    /\ trigPc = [t \in Triggers |-> "none"]
    /\ trigKind = [t \in Triggers |-> "none"]
    /\ collector_calls = IF backend_set THEN 1 ELSE 0
    /\ collected_when = IF backend_set THEN "before_start" ELSE "never"
    /\ HandlerIdle
    /\ ProbeIdle

RelayNext ==
    /\ \/ \E p \in Pids : ChildExits(p)
       \/ \E m \in Methods, p \in Paths : HandleRequest(m, p)
       \/ \E o \in RelayOutcomes : ProxyReturn(o)
       \/ HealthReturn
       \/ FinishRequest
    /\ UNCHANGED <<serverVars, probeVars>>

SpecRelay == RelayInit /\ [][RelayNext]_vars

(***************************************************************************)
(* The supervisor alone, with two threads calling it: its owner, which     *)
(* starts and stops it, and another thread, which stops it.  Another       *)
(* program may hold the backend port.                                      *)
(***************************************************************************)
StopInit ==
    /\ model_path \in {<<>>, <<"/models/m">>}
    /\ startup_timeout \in StartupTimeouts
    /\ probed = 0
    /\ elapsed = 0
    /\ process = 0
    /\ shutdown_requested = FALSE
    /\ child = [p \in Pids |-> "unborn"]
    /\ foreign \in {"none", "ok", "error"}
    /\ ctlPc = "idle"
    /\ polls = 0
    /\ startResult = "none"
    /\ startPath = "none"
    /\ StopIdle
    /\ ServerNew
    /\ backend_set = FALSE
    /\ environment_info = <<>>
    /\ HandlerIdle
    /\ ProbeIdle

StopNext ==
    /\ \/ StartServer
       \/ WaitForReady
       \/ StartReturn
       \/ \E c \in StopThreads : StopServerCall(c)
       \/ \E c \in StopThreads : StopCheckFlag(c)
       \/ \E c \in StopThreads : StopSetFlag(c)
       \/ \E c \in StopThreads : StopSignal(c)
       \/ \E c \in StopThreads : StopWait(c)
       \/ \E c \in StopThreads : StopDone(c)
       \/ \E p \in Pids : ChildBecomesReady(p)
       \/ \E p \in Pids : ChildExits(p)
    /\ UNCHANGED <<serverVars, probeVars>>

SpecStop == StopInit /\ [][StopNext]_vars

(***************************************************************************)
(* The supervisor, started and stopped by its owner, and a thread that     *)
(* reads it meanwhile, as the worker of a request does                     *)
(***************************************************************************)
ProbeNext ==
    \/ /\ \/ StartServer
          \/ WaitForReady
          \/ StartReturn
          \/ StopServerCall("main")
          \/ StopCheckFlag("main")
          \/ StopSetFlag("main")
          \/ StopSignal("main")
          \/ StopWait("main")
          \/ StopDone("main")
          \/ \E p \in Pids : ChildBecomesReady(p)
          \/ \E p \in Pids : ChildExits(p)
       /\ UNCHANGED <<serverVars, probeVars>>
    \/ /\ \/ \E call \in ProbeCalls : ProbeCall(call)
          \/ ProbePoll
          \/ ProbeReturn
       /\ UNCHANGED serverVars

SpecProbe == Init /\ [][ProbeNext]_vars

(***************************************************************************)
(* The program: cli.main() constructs an InferenceServer, starts it, and   *)
(* stops it on a signal; requests arrive while the listener serves         *)
(***************************************************************************)
ServerNext ==
    \/ InferenceServerInit
    \/ ServerStart
    \/ ServerStarting
    \/ ServerBind
    \/ ServerThreadStart
    \/ ServerBindFailed
    \/ WaitForever
    \/ ServeForever
    \/ ServeForeverEnds
    \/ \E t \in Triggers, kind \in {"signal", "thread"} : ServerStop(t, kind)
    \/ \E t \in Triggers : ServerShutdown(t)
    \/ \E t \in Triggers : ServerClose(t)
    \/ \E t \in Triggers : ServerStopBackend(t)
    \/ \E t \in Triggers : ServerStopReturns(t)
    \/ \E m \in Methods, p \in Paths : ServerDispatch(m, p)
    \/ /\ \/ \E p \in Pids : ChildBecomesReady(p)
          \/ \E p \in Pids : ChildExits(p)
          \/ \E o \in SystemOutcomes : ProxyReturn(o)
          \/ HealthReturn
          \/ FinishRequest
       /\ UNCHANGED <<serverVars, probeVars>>

SpecServer == Init /\ [][ServerNext]_vars

(***************************************************************************)
(* The same program with its threads scheduled fairly: a thread that can   *)
(* take a step takes it eventually.  Every wait of the code is bounded     *)
(* (the readiness loop, the deadline of stop_server(), the timeout of the  *)
(* outbound call) except the wait of shutdown() for the accept loop.       *)
(* Signals, stop() calls of other threads, connections and the children's  *)
(* own progress are under no obligation to happen.                         *)
(***************************************************************************)
\* the requests and the upstream outcomes of the fair program: a request
\* that makes an outbound call and one that does not, a call that fails at
\* once and one that is answered; how long a request keeps the accept loop
\* is what matters here
FairRequests == { <<"POST", CompletionsPath>>, <<"GET", HealthPath>> }

FairOutcomes ==
    { o \in PartsOutcomes :
        \/ o.kind = "refused"
        \/ o.kind = "response" /\ o.status = 200 }

\* the steps of the main thread, outside signal handlers
MainThreadStep ==
    \/ InferenceServerInit
    \/ ServerStart
    \/ ServerStarting
    \/ ServerBind
    \/ ServerThreadStart
    \/ ServerBindFailed
    \/ WaitForever

\* the steps of the serving thread: the accept loop and the handler in it
ServingThreadStep ==
    \/ ServeForever
    \/ ServeForeverEnds
    \/ /\ \/ \E o \in FairOutcomes : ProxyReturn(o)
          \/ HealthReturn
          \/ FinishRequest
       /\ UNCHANGED <<serverVars, probeVars>>

\* the steps of the stop() of trigger t
TriggerStep(t) ==
    \/ ServerShutdown(t)
    \/ ServerClose(t)
    \/ ServerStopBackend(t)
    \/ ServerStopReturns(t)

ServerFairNext ==
    \/ MainThreadStep
    \/ ServingThreadStep
    \/ \E t \in Triggers : TriggerStep(t)
    \/ \E t \in Triggers, kind \in {"signal", "thread"} : ServerStop(t, kind)
    \/ \E r \in FairRequests : ServerDispatch(r[1], r[2])
    \/ /\ \/ \E p \in Pids : ChildBecomesReady(p)
          \/ \E p \in Pids : ChildExits(p)
       /\ UNCHANGED <<serverVars, probeVars>>

SpecServerFair ==
    /\ Init
    /\ [][ServerFairNext]_vars
    /\ WF_vars(MainThreadStep)
    /\ WF_vars(ServingThreadStep)
    /\ \A t \in Triggers : WF_vars(TriggerStep(t))

(***************************************************************************)
(* Vocabulary of the properties                                            *)
(***************************************************************************)
Done == hPc = "done"

\* the two completion paths of the interface
ExactCompletionPaths == {CompletionsPath, ChatCompletionsPath}

\* the request is a POST that do_POST hands to _proxy_to_backend
ProxiedPost == request.method = "POST" /\ IsCompletionRoute(request.path)

\* r is {"error": {"code": code, "message": ..., "type": "proxy_error"}} sent
\* with status `code`
IsStructuredError(r, code) ==
    /\ r.status = code
    /\ IsJsonContentType(HeaderGet(r.headers, "Content-Type"))
    /\ LET p == Loads(r.body)
       IN /\ p.ok
          /\ p.val.t = "obj"
          /\ <<"error">> \in Keys(p.val)
          /\ LET e == Get(p.val, <<"error">>)
             IN /\ e.t = "obj"
                /\ {<<"code">>, <<"message">>, <<"type">>} \subseteq Keys(e)
                /\ Get(e, <<"code">>) = JNum(<<ToString(code)>>)
                /\ Get(e, <<"message">>).t = "str"
                /\ Get(e, <<"type">>) = JStr(<<"proxy_error">>)

\* the far end answered the outbound call with a 2xx response
UpstreamSucceeded ==
    upstream.kind = "response" /\ upstream.status >= 200 /\ upstream.status < 300

\* the far end answered the outbound call with a response that is not 2xx
UpstreamFailedStatus ==
    upstream.kind = "response" /\ ~(upstream.status >= 200 /\ upstream.status < 300)

UpstreamContentType == HeaderGet(upstream.headers, "Content-Type")

\* the upstream body is the text of a JSON object
UpstreamBodyIsObject ==
    /\ DecodesAsUtf8(upstream.body)
    /\ Loads(upstream.body).ok
    /\ Loads(upstream.body).val.t = "obj"

HealthRequest == request.method = "GET" /\ request.path = HealthPath

(***************************************************************************)
(* C1: whenever is_running() is false, or no backend is set, a POST to a   *)
(* completion path is answered 503 with the structured JSON error and no   *)
(* outbound request is made: the outbound call is only ever in flight for  *)
(* a handler that saw is_running() true.                                   *)
(***************************************************************************)
C1_NoCallWhenDown ==
    /\ hPc = "proxy_call" => is_running_seen = "true"
    /\ (Done /\ ProxiedPost /\ is_running_seen # "true") =>
          /\ IsStructuredError(response, 503)
          /\ outbound = 0
          /\ upstream = NoOutcome

\* a POST to a completion path was answered 503 after the tracked child exited
C1_Witness ==
    /\ Done
    /\ ProxiedPost
    /\ is_running_seen = "false"
    /\ process # 0
    /\ child[process] = "exited"
    /\ response.status = 503
    /\ outbound = 0

(***************************************************************************)
(* C2: for a 2xx upstream response to a completion POST whose Content-Type *)
(* is JSON and whose body is a JSON object, the body sent to the client is *)
(* the original object plus exactly one new top-level key "environment",   *)
(* a string that parses to an object with driver_version, cuda_version,    *)
(* gpu_count and gpus; every original key keeps its original value.        *)
(***************************************************************************)
C2_InjectionSuperset ==
    (/\ Done
     /\ ProxiedPost
     /\ UpstreamSucceeded
     /\ environment_info # <<>>
     /\ IsJsonContentType(UpstreamContentType)
     /\ UpstreamBodyIsObject) =>
        LET original == Loads(upstream.body).val
            sent == Loads(response.body)
        IN /\ response.status = upstream.status
           /\ sent.ok
           /\ sent.val.t = "obj"
           /\ Keys(sent.val) \ Keys(original) = {<<"environment">>}
           /\ Keys(original) \subseteq Keys(sent.val)
           /\ \A k \in Keys(original) : Get(sent.val, k) = Get(original, k)
           /\ LET e == Get(sent.val, <<"environment">>)
              IN /\ e.t = "str"
                 /\ Loads(e.s).ok
                 /\ Loads(e.s).val.t = "obj"
                 /\ {<<"driver_version">>, <<"cuda_version">>, <<"gpu_count">>,
                     <<"gpus">>} \subseteq Keys(Loads(e.s).val)

(***************************************************************************)
(* C2, amended: under the same conditions the body sent to the client is   *)
(* a JSON object whose keys are the original keys and "environment"; the   *)
(* value of "environment" is the snapshot string (a new key when the       *)
(* original has none, and otherwise in place of the original's value),     *)
(* which parses to an object with driver_version, cuda_version, gpu_count  *)
(* and gpus; every other original key keeps its original value.            *)
(***************************************************************************)
C2_InjectionSetsEnvironment ==
    (/\ Done
     /\ ProxiedPost
     /\ UpstreamSucceeded
     /\ environment_info # <<>>
     /\ IsJsonContentType(UpstreamContentType)
     /\ UpstreamBodyIsObject) =>
        LET original == Loads(upstream.body).val
            sent == Loads(response.body)
        IN /\ response.status = upstream.status
           /\ sent.ok
           /\ sent.val.t = "obj"
           /\ Keys(sent.val) = Keys(original) \cup {<<"environment">>}
           /\ Len(sent.val.items) = Cardinality(Keys(sent.val))
           /\ \A k \in Keys(original) \ {<<"environment">>} :
                 Get(sent.val, k) = Get(original, k)
           /\ LET e == Get(sent.val, <<"environment">>)
              IN /\ e = JStr(environment_info)
                 /\ Loads(e.s).ok
                 /\ Loads(e.s).val.t = "obj"
                 /\ {<<"driver_version">>, <<"cuda_version">>, <<"gpu_count">>,
                     <<"gpus">>} \subseteq Keys(Loads(e.s).val)

\* an upstream object with keys of its own, none of them "environment", was
\* sent on with the snapshot added
C2_Witness ==
    /\ Done
    /\ ProxiedPost
    /\ UpstreamSucceeded
    /\ environment_info # <<>>
    /\ IsJsonContentType(UpstreamContentType)
    /\ UpstreamBodyIsObject
    /\ Keys(Loads(upstream.body).val) # {}
    /\ <<"environment">> \notin Keys(Loads(upstream.body).val)
    /\ Loads(response.body).ok
    /\ <<"environment">> \in Keys(Loads(response.body).val)

(***************************************************************************)
(* C3: injection fails open: for a 2xx upstream response to a completion   *)
(* POST whose body cannot be augmented as a JSON object (not UTF-8, not    *)
(* JSON, or JSON that is no object), the client receives the upstream      *)
(* status and the upstream body unchanged.                                 *)
(***************************************************************************)
C3_InjectionFailsOpen ==
    (/\ Done
     /\ ProxiedPost
     /\ UpstreamSucceeded
     /\ ~UpstreamBodyIsObject) =>
        /\ response.status = upstream.status
        /\ response.body = upstream.body

C5_ErrorPassthrough ==
    (Done /\ ProxiedPost /\ UpstreamFailedStatus) =>
        /\ response.status = upstream.status
        /\ response.body = upstream.body

(***************************************************************************)
(* C6: a request to an unregistered path (a GET to anything but /health, a *)
(* POST to anything but a completion path) is answered 404 with error.type *)
(* "proxy_error", whatever the state of the backend, with no upstream call.*)
(***************************************************************************)
C6_UnknownRoute404 ==
    (/\ Done
     /\ \/ request.method = "GET" /\ request.path # HealthPath
        \/ request.method = "POST" /\ request.path \notin ExactCompletionPaths) =>
        /\ IsStructuredError(response, 404)
        /\ outbound = 0

(***************************************************************************)
(* C7: a POST is forwarded upstream only when its path is /v1/completions  *)
(* or /v1/chat/completions; a POST to any other path is never forwarded    *)
(* and is answered 404.                                                    *)
(***************************************************************************)
C7_OnlyExactCompletionPaths ==
    (request.method = "POST" /\ request.path \notin ExactCompletionPaths) =>
        /\ hPc # "proxy_call"
        /\ outbound = 0
        /\ Done => response.status = 404

(***************************************************************************)
(* C8: a request with a method other than GET or POST, on any path, is     *)
(* answered 404 with the structured JSON error of type "proxy_error".      *)
(***************************************************************************)
C8_OtherMethods404 ==
    (Done /\ request.method \notin {"GET", "POST"}) =>
        IsStructuredError(response, 404)

(***************************************************************************)
(* C9: when the outbound call fails at the network level (connection       *)
(* refused, or the call timing out) the client receives 502 with the       *)
(* structured JSON error, never 500, and is never left unanswered.         *)
(***************************************************************************)
C9_NetworkFailure502 ==
    (/\ Done
     /\ ProxiedPost
     /\ upstream.kind \in {"refused", "connect_timeout", "read_timeout"}) =>
        IsStructuredError(response, 502)

(***************************************************************************)
(* C10: GET /health is answered 200 with status "healthy" in every backend *)
(* state; backend.status is "ready" exactly when is_running() was true,    *)
(* backend.healthy is what health_check() returned, and backend.url is the *)
(* base URL of the supervisor.                                             *)
(***************************************************************************)
C10_HealthAlways200 ==
    (Done /\ HealthRequest) =>
        /\ response.status = 200
        /\ LET p == Loads(response.body)
           IN /\ p.ok
              /\ p.val.t = "obj"
              /\ Keys(p.val) = {<<"status">>, <<"backend">>}
              /\ Get(p.val, <<"status">>) = JStr(<<"healthy">>)
              /\ LET b == Get(p.val, <<"backend">>)
                 IN /\ b.t = "obj"
                    /\ Keys(b) = {<<"status">>, <<"healthy">>, <<"url">>}
                    /\ Get(b, <<"status">>) =
                          JStr(<<IF is_running_seen = "true" THEN "ready"
                                 ELSE "not_ready">>)
                    /\ Get(b, <<"healthy">>) =
                          JLit(IF backend_healthy THEN "true" ELSE "false")
                    /\ backend_set => Get(b, <<"url">>) = JStr(BaseUrl)

\* GET /health was answered 200 and "not_ready" after the tracked child exited
C10_Witness ==
    /\ Done
    /\ HealthRequest
    /\ backend_set
    /\ process # 0
    /\ child[process] = "exited"
    /\ is_running_seen = "false"
    /\ response.status = 200

(***************************************************************************)
(* Vocabulary of the properties of the supervisor and the orchestrator     *)
(***************************************************************************)
\* this step is a call of start_server()
StartCalled == ctlPc = "idle" /\ ctlPc' # "idle"

\* this step is a call of stop_server() by c
StopCalled(c) == stopPc[c] = "idle" /\ stopPc'[c] # "idle"

\* the fields of the supervisor, and what it did to its children
SupervisorFields == <<model_path, process, shutdown_requested, child, sigterm,
                      sigkill, startResult, startPath>>

\* start_server() has just returned False after it had spawned a child
StartFailedAfterSpawn ==
    ctlPc = "returned" /\ startResult = "false" /\ startPath = "spawned"

(***************************************************************************)
(* C11: no request-time failure crashes the handling worker: every request *)
(* handed to the handler ends with one complete response sent to the       *)
(* client and with no exception leaving the handler.                       *)
(***************************************************************************)
C11_NoHandlerCrash ==
    Done => /\ ~escaped
            /\ response # NoResponse

(***************************************************************************)
(* C12: start_server() on a supervisor whose tracked child is alive        *)
(* returns True, spawns no process and leaves the handle as it was.        *)
(***************************************************************************)
C12_IdempotentStart ==
    [][(StartCalled /\ IsRunning) =>
          /\ ctlPc' = "returned"
          /\ startResult' = "true"
          /\ process' = process
          /\ child' = child]_vars

\* start_server() has returned from a call that found the child running
C12_Witness ==
    /\ ctlPc = "returned"
    /\ startPath = "already_running"
    /\ startResult = "true"
    /\ IsRunning

(***************************************************************************)
(* C13: stop_server() on a supervisor that tracks no process, never        *)
(* started or stopped before, returns at once by its first test: it sends  *)
(* no signal and changes no field of the supervisor.                       *)
(***************************************************************************)
C13_StopWithoutProcess ==
    [][\A c \in Callers :
          (StopCalled(c) /\ process = 0) =>
              /\ stopPc'[c] = "returned"
              /\ stopExit'[c] = "no_process"
              /\ UNCHANGED SupervisorFields]_vars

\* stop_server() has returned from a call on a supervisor stopped before
C13_Witness ==
    \E c \in Callers :
        /\ stopPc[c] = "returned"
        /\ stopExit[c] = "no_process"
        /\ process = 0
        /\ \E p \in Pids : child[p] = "exited"

(***************************************************************************)
(* C14: two concurrent calls of stop_server() execute one termination      *)
(* sequence: SIGTERM is sent to the child at most once.                    *)
(***************************************************************************)
C14_OneTerminationSequence == \A p \in Pids : sigterm[p] <= 1

(***************************************************************************)
(* C15: at the moment a call of stop_server() returns, its caller finds    *)
(* the process absent: the handle is cleared and is_running() is false,    *)
(* also for the caller whose call was coalesced.                           *)
(***************************************************************************)
C15_StopReturnsAbsent ==
    \A c \in Callers : stopPc[c] = "returned" => stopSaw[c] = "absent"

(***************************************************************************)
(* C16: when start_server() returns False after it had spawned a child     *)
(* (the readiness loop timed out, or saw the child exit), stop_server()    *)
(* has run on that child and the supervisor tracks no handle, so           *)
(* is_running() is false.                                                  *)
(***************************************************************************)
C16_FailedStartCleansUp ==
    StartFailedAfterSpawn =>
        /\ process = 0
        /\ ~IsRunning
        /\ ~shutdown_requested
        /\ stopExit["main"] \in {"already_dead", "stopped", "killed", "survived"}

\* start_server() gave up on a child that never answered, and had to kill it
C16_Witness ==
    /\ StartFailedAfterSpawn
    /\ polls = MaxPolls
    /\ stopExit["main"] = "killed"

(***************************************************************************)
(* C17: start_server() spawns a child only if the model path is not empty  *)
(* and nothing answered the GET /health it sent to the port before; with   *)
(* an empty model path, or a port that answers, a start_server() that is   *)
(* not already running returns False with no child spawned and no handle   *)
(* tracked.                                                                *)
(***************************************************************************)
C17_SpawnOnlyIfFree ==
    [][StartCalled =>
          /\ child' # child => (model_path # <<>> /\ ~PortAnswers)
          /\ (~IsRunning /\ (model_path = <<>> \/ PortAnswers)) =>
                /\ ctlPc' = "returned"
                /\ startResult' = "false"
                /\ child' = child
                /\ process' = 0]_vars

(***************************************************************************)
(* C18: the listener is bound, and a request handed to the handler, only   *)
(* after start_server() has returned True; if it returned False, start()   *)
(* of the orchestrator fails and no listener is ever bound.                *)
(***************************************************************************)
C18_ListenerAfterBackendStart ==
    /\ listener # "none" => startResult = "true"
    /\ hPc # "idle" => (listener = "serving" /\ startResult = "true")
    /\ startResult = "false" => listener = "none"
    /\ (srvPc = "failed" /\ startResult = "false") => listener = "none"

\* a request was answered through the listener of a started server
C18_Witness ==
    /\ listener = "serving"
    /\ startResult = "true"
    /\ Done

(***************************************************************************)
(* C19: the environment snapshot is taken after start_server() has         *)
(* succeeded and before the listener is bound: the collector never runs    *)
(* before the backend is ready.                                            *)
(***************************************************************************)
C19_SnapshotAfterStart ==
    /\ collector_calls > 0 => collected_when = "after_start"
    /\ listener # "none" => collector_calls > 0

(***************************************************************************)
(* C20: a failed environment collection aborts the startup: wherever the   *)
(* listener accepts connections, or a request is being handled, the        *)
(* snapshot exists; and after the aborted startup no backend child runs.   *)
(***************************************************************************)
C20_NoServingWithoutSnapshot ==
    /\ listener \in {"bound", "serving"} => environment_info # <<>>
    /\ hPc # "idle" => environment_info # <<>>
    /\ srvPc = "aborted" =>
          /\ environment_info = <<>>
          /\ listener = "none"
          /\ process = 0
          /\ \A p \in Pids : ~Alive(p)

\* the collection has failed and the startup was given up
C20_Witness ==
    /\ srvPc = "aborted"
    /\ collector_calls = 1
    /\ environment_info = <<>>

\* a completion POST was answered 2xx with a JSON object that has the field
\* the handler adds
Augmented ==
    /\ Done
    /\ ProxiedPost
    /\ response.status >= 200
    /\ response.status < 300
    /\ Loads(response.body).ok
    /\ Loads(response.body).val.t = "obj"
    /\ <<"environment">> \in Keys(Loads(response.body).val)

(***************************************************************************)
(* C21: the snapshot is captured once per run and never changes: the       *)
(* collector is called once, the snapshot the handler reads is the one the *)
(* orchestrator took at startup and is never assigned again, and the       *)
(* `environment` of every augmented response is that string.               *)
(***************************************************************************)
C21_SnapshotCapturedOnce ==
    /\ [](/\ collector_calls <= 1
          /\ environment_info = environment_json
          /\ Augmented =>
                Get(Loads(response.body).val, <<"environment">>)
                    = JStr(environment_json))
    /\ [][environment_json # <<>> =>
             (environment_json' = environment_json
              /\ environment_info' = environment_info
              /\ collector_calls' = collector_calls)]_vars

\* an augmented response was sent by a server that is being shut down: not
\* the first thing that happened since the snapshot was taken
C21_Witness ==
    /\ Augmented
    /\ environment_json # <<>>
    /\ Get(Loads(response.body).val, <<"environment">>) = JStr(environment_json)
    /\ shutdown_event

\* the stop() of trigger t has called stop_server()
BackendStopBegun(t) == stopPc[t] # "idle"

(***************************************************************************)
(* C22: in stop(), stop_server() is called only when the listener, if one  *)
(* was bound, has left its accept loop and is closed; so from the moment   *)
(* the termination of the backend has begun no request is in the handler   *)
(* and none is handed to it.                                               *)
(***************************************************************************)
C22_ListenerClosedBeforeBackendStop ==
    /\ [](\A t \in Triggers :
             BackendStopBegun(t) =>
                 /\ listener \in {"none", "closed"}
                 /\ ~shutdown_request
                 /\ hPc = "idle")
    /\ [][(\E t \in Triggers : BackendStopBegun(t)) => hPc' = "idle"]_vars

\* the stop() of a trigger is waiting for the child it sent SIGTERM, behind
\* a listener that had served and is closed
C22_Witness ==
    \E t \in Triggers :
        /\ trigPc[t] = "stopping"
        /\ stopPc[t] = "wait"
        /\ listener = "closed"
        /\ process # 0
        /\ sigterm[process] > 0

\* no signal was sent to a child of the supervisor
NoSignalSent == \A p \in Pids : sigterm[p] = 0 /\ sigkill[p] = 0

(***************************************************************************)
(* C23: a request in flight when stop() is called is handled to its end    *)
(* before the backend is torn down: while the handler has a request, the   *)
(* accept loop has not been left, no stop() has called stop_server(), no   *)
(* signal has gone to the backend and the program has not exited.          *)
(***************************************************************************)
C23_InFlightRequestCompletes ==
    hPc # "idle" =>
        /\ listener = "serving"
        /\ \A t \in Triggers : ~BackendStopBegun(t)
        /\ NoSignalSent
        /\ srvPc # "exited"

\* a completion POST, in flight when stop() asked the loop to end, was
\* answered with the backend's 200 while stop() waits in shutdown()
C23_Witness ==
    /\ Done
    /\ ProxiedPost
    /\ UpstreamSucceeded
    /\ response.status = 200
    /\ shutdown_request
    /\ \E t \in Triggers : trigPc[t] = "shutdown_wait"
    /\ IsRunning

\* a proxied request waits for the upstream response
WaitingForUpstream == hPc = "proxy_call"

(***************************************************************************)
(* C24: each connection has a worker of its own: while one proxied         *)
(* request still waits for its upstream response and the listener serves,  *)
(* a second connection can be accepted and handled without waiting for     *)
(* the first to finish.                                                    *)
(***************************************************************************)
C24_SecondConnectionNotBlocked ==
    (WaitingForUpstream /\ listener = "serving" /\ ~shutdown_request) =>
        ENABLED (\/ ServerDispatch("GET", HealthPath)
                 \/ ServerDispatch("POST", CompletionsPath))

(***************************************************************************)
(* C25: is_running() and health_check(), run by a thread while the owner   *)
(* runs stop_server(), never fail on a process handle cleared half-way     *)
(* through them: under every interleaving they return a boolean.           *)
(***************************************************************************)
C25_ProbeNeverFails ==
    probePc = "returned" => probeResult \in {"true", "false"}

\* both shutdown triggers came to a server whose start() had started the
\* backend and had no cleanup of its own to do, and the program has exited
ShutDownTwice ==
    /\ srvPc = "exited"
    /\ startResult = "true"
    /\ stopPc["main"] = "idle"
    /\ \A t \in Triggers : trigPc[t] \in {"done", "unwound"}

(***************************************************************************)
(* C26: repeated shutdown triggers are idempotent: when a second trigger   *)
(* has come while or after the first shutdown ran, the listener is closed, *)
(* no stop_server() was abandoned half-way, each child got SIGTERM at most *)
(* once, and no child is left running that was not sent SIGKILL after its  *)
(* deadline.                                                               *)
(***************************************************************************)
C26_RepeatedTriggersIdempotent ==
    ShutDownTwice =>
        /\ listener \in {"none", "closed"}
        /\ \A c \in Callers : stopExit[c] # "interrupted"
        /\ \A p \in Pids : sigterm[p] <= 1 /\ sigkill[p] <= 1
        /\ \A p \in Pids : Alive(p) => sigkill[p] = 1

\* the ways in which a stop_server() that performs the termination ends
TerminationExits == {"already_dead", "stopped", "killed", "survived", "error"}

(***************************************************************************)
(* C27: stop_server() returns normally with the process handle cleared on  *)
(* every exit path of the call that performs the termination: the child    *)
(* had exited already, exits on SIGTERM, is killed, survives the kill, or  *)
(* the signalling fails.                                                   *)
(***************************************************************************)
C27_HandleClearedOnEveryExit ==
    \A c \in StopThreads :
        (stopPc[c] = "returned" /\ stopExit[c] \in TerminationExits) =>
            stopSaw[c] = "absent"

\* a child that outlived SIGKILL: stop_server() returned all the same
C27_Witness ==
    /\ stopPc["main"] = "returned"
    /\ stopExit["main"] = "survived"
    /\ stopSaw["main"] = "absent"
    /\ \E p \in Pids : Alive(p) /\ sigkill[p] > 0

\* the stop() of trigger t has been called / has returned
StopInvoked(t) == trigPc[t] # "none"
StopCompleted(t) == trigPc[t] \in {"done", "unwound"}

(***************************************************************************)
(* C28: the orchestrator's stop() always completes: called in any state of *)
(* the program (while start() runs, after the listener object exists but   *)
(* before its accept loop runs, while serving, during a previous stop()),  *)
(* it eventually returns.                                                  *)
(***************************************************************************)
C28_StopAlwaysCompletes ==
    \A t \in Triggers : StopInvoked(t) ~> StopCompleted(t)

\* wait_forever() has been left: it returned, or the signal handler that
\* ran on top of it ended the program
WaitForeverLeft == srvPc \in {"returned", "exited"}

(***************************************************************************)
(* C29: wait_forever() is not left while no shutdown has been requested,   *)
(* and it is left eventually once a signal has arrived or stop() has been  *)
(* called, by another thread included.                                     *)
(***************************************************************************)
C29_WaitForeverUntilShutdown ==
    /\ [][(srvPc = "started" /\ srvPc' # "started") => shutdown_event]_vars
    /\ (srvPc = "started" /\ shutdown_event) ~> WaitForeverLeft

\* wait_forever() returned because another thread called stop()
C29_Witness ==
    /\ srvPc = "returned"
    /\ shutdown_event
    /\ \E t \in Triggers : trigKind[t] = "thread" /\ StopInvoked(t)
    /\ \A t \in Triggers : trigKind[t] # "signal"

(***************************************************************************)
(* C30: stop_server() sends SIGKILL only after it has sent SIGTERM to the  *)
(* child and the child has not exited within the deadline; a call that     *)
(* found the child exited, at its start or within the deadline, has sent   *)
(* no SIGKILL.                                                             *)
(***************************************************************************)
C30_KillOnlyAfterTermAndDeadline ==
    /\ [][\A p \in Pids :
            sigkill'[p] > sigkill[p] =>
                /\ stopPc["main"] = "wait"
                /\ p = process
                /\ sigterm[p] >= 1
                /\ Alive(p)]_vars
    /\ []((stopPc["main"] = "returned"
              /\ stopExit["main"] \in {"already_dead", "stopped"}) =>
            \A p \in Pids : sigkill[p] = 0)

\* the deadline passed and the child was killed: one SIGTERM, then one
\* SIGKILL
C30_Witness ==
    /\ stopPc["main"] = "returned"
    /\ stopExit["main"] = "killed"
    /\ \E p \in Pids : sigterm[p] = 1 /\ sigkill[p] = 1 /\ child[p] = "exited"

\* the step is one of the readiness loop: an iteration, or its return
ReadinessLoopStep ==
    /\ ctlPc = "wait_ready"
    /\ ctlPc' # ctlPc \/ polls' # polls \/ probed' # probed

(***************************************************************************)
(* C31: the readiness loop looks at the child before it probes: with the   *)
(* child exited, the iteration issues no probe and start_server() fails in *)
(* it, without sleeping; the loop returns success only from an iteration   *)
(* in which the child was alive and the probe it issued was answered 200.  *)
(***************************************************************************)
C31_LivenessBeforeProbe ==
    [][ReadinessLoopStep =>
          /\ (process # 0 /\ child[process] = "exited") =>
                /\ ctlPc' = "start_failed"
                /\ startResult' # "true"
                /\ probed' = probed
                /\ polls' = polls
                /\ elapsed' = elapsed
          /\ startResult' = "true" =>
                /\ IsRunning
                /\ probed' = probed + 1
                /\ HealthAnswers200]_vars

\* the child died after one probe had gone unanswered, and start_server()
\* gave up before its timeout
C31_Witness ==
    /\ ctlPc = "start_failed"
    /\ process # 0
    /\ child[process] = "exited"
    /\ probed = 1
    /\ polls = 1
    /\ elapsed < startup_timeout

\* the longest an iteration of the readiness loop lasts: a probe that runs
\* into its timeout, and the sleep
PollIteration == ProbeTimeout + CheckInterval

(***************************************************************************)
(* C32: start_server() that spawned a child and got no 200 returns failure *)
(* once the startup timeout has elapsed, at most one iteration of the      *)
(* readiness loop late, for every timeout, 0 included.                     *)
(***************************************************************************)
C32_StartFailsWithinTimeout ==
    StartFailedAfterSpawn => elapsed <= startup_timeout + PollIteration

\* the step is one of the thread that reads the supervisor
ProbeStep == probePc' # probePc

(***************************************************************************)
(* C33: is_running() and health_check() change nothing of the supervisor,  *)
(* neither the process handle nor the shutdown flag; is_running() sends no *)
(* request; health_check() sends its probe only with the child alive and   *)
(* returns True only if that probe, sent in this call, was answered 200.   *)
(***************************************************************************)
C33_ProbesAreSideEffectFree ==
    [][ProbeStep =>
          /\ UNCHANGED supervisorVars
          /\ probePc = "is_running" => probeSent' = 0
          /\ probeSent' > probeSent => (probePc = "health_check" /\ IsRunning)
          /\ (probePc = "health_check" /\ probeResult' = "true") =>
                /\ IsRunning
                /\ probeSent' = 1
                /\ HealthAnswers200]_vars

\* health_check() returned True for a child that serves, having sent one
\* probe, and the supervisor still tracks the child
C33_Witness ==
    /\ probePc = "returned"
    /\ probeResult = "true"
    /\ probeSent = 1
    /\ IsRunning
    /\ ~shutdown_requested

\* child p exits in this step, and not by the SIGKILL of a stop_server()
ExitsByItself(p) ==
    /\ Alive(p)
    /\ child'[p] = "exited"
    /\ sigkill'[p] = sigkill[p]

\* a completion POST is dispatched in this step
CompletionPostDispatched ==
    /\ hPc = "idle"
    /\ hPc' # "idle"
    /\ request'.method = "POST"
    /\ IsCompletionRoute(request'.path)

(***************************************************************************)
(* C34: nothing watches the child: when it exits the supervisor keeps its  *)
(* fields as they are and spawns nothing; the exit shows when a caller     *)
(* asks, and every completion POST dispatched while the tracked child is   *)
(* dead is answered 503 with no outbound call.                             *)
(***************************************************************************)
C34_NoBackgroundMonitor ==
    /\ [][\A p \in Pids : ExitsByItself(p) =>
            /\ process' = process
            /\ shutdown_requested' = shutdown_requested
            /\ startResult' = startResult
            /\ ctlPc' = ctlPc
            /\ \A q \in Pids : child[q] = "unborn" => child'[q] = "unborn"]_vars
    /\ [][(CompletionPostDispatched /\ process # 0 /\ ~Alive(process)) =>
            /\ hPc' = "done"
            /\ is_running_seen' # "true"
            /\ IsStructuredError(response', 503)
            /\ outbound' = 0]_vars

\* the child of a successful start_server() exited by itself; the handle
\* still names it, and a completion POST was answered 503
C34_Witness ==
    /\ Done
    /\ ProxiedPost
    /\ response.status = 503
    /\ backend_set
    /\ startResult = "true"
    /\ ctlPc = "idle"
    /\ process # 0
    /\ child[process] = "exited"
    /\ sigterm[process] = 0
    /\ sigkill[process] = 0
    /\ \A c \in Callers : stopPc[c] = "idle"

\* the states of the life of the supervisor, read off its fields between
\* two calls of its owner
Stopped ==
    /\ ctlPc = "idle"
    /\ stopPc["main"] = "idle"
    /\ process = 0
    /\ startResult = "true"

Failed ==
    /\ ctlPc = "idle"
    /\ stopPc["main"] = "idle"
    /\ process = 0
    /\ startResult = "false"

(***************************************************************************)
(* C35: the life of the supervisor is monotonic: one that has reached      *)
(* Stopped or Failed never returns to Starting (its readiness loop) or to  *)
(* Ready (a tracked child after a start that returned True), whatever      *)
(* start_server() and stop_server() calls follow.                          *)
(***************************************************************************)
C35_LifecycleMonotonic ==
    [][(Stopped \/ Failed) =>
          /\ ctlPc' # "wait_ready"
          /\ process' = 0]_vars

\* the children of the supervisor that are alive
LiveChildren == {p \in Pids : Alive(p)}

(***************************************************************************)
(* C36: at every moment at most one child spawned by the supervisor is     *)
(* alive, whatever start_server() and stop_server() calls were made, also  *)
(* after a stop_server() whose child outlived SIGKILL.                     *)
(***************************************************************************)
C36_AtMostOneLiveChild == Cardinality(LiveChildren) <= 1

\* the upstream body went to the client as it came
ForwardedUnchanged ==
    /\ Done
    /\ ProxiedPost
    /\ UpstreamSucceeded
    /\ response.status = upstream.status
    /\ response.body = upstream.body

(***************************************************************************)
(* C37: the upstream Content-Encoding header is withheld only when the     *)
(* body was re-serialized: with a 2xx upstream body forwarded unchanged    *)
(* (no JSON content type, a body that does not parse, no snapshot), the    *)
(* client gets the upstream Content-Encoding header with it.               *)
(***************************************************************************)
C37_ContentEncodingKeptUnlessInjected ==
    (ForwardedUnchanged /\ HasHeader(upstream.headers, "Content-Encoding")) =>
        /\ HasHeader(response.headers, "Content-Encoding")
        /\ HeaderGet(response.headers, "Content-Encoding")
             = HeaderGet(upstream.headers, "Content-Encoding")

\* the response came from upstream: a 2xx with or without injection, or the
\* passthrough of another status
RelayedFromUpstream ==
    /\ Done
    /\ ProxiedPost
    /\ upstream.kind = "response"
    /\ response.status = upstream.status

(***************************************************************************)
(* C38: every response relayed from upstream carries exactly one           *)
(* Content-Length header, and its value is the number of body bytes        *)
(* written.                                                                *)
(***************************************************************************)
C38_OneExactContentLength ==
    RelayedFromUpstream =>
        /\ Len(HeaderValues(response.headers, "Content-Length")) = 1
        /\ HeaderGet(response.headers, "Content-Length")
             = <<ToString(Len(response.body))>>


\* start() of the orchestrator returned False after the backend had become
\* ready: the listener could not be bound, and the except clause ran
StartFailedAfterReady == srvPc = "failed" /\ startResult = "true"

(***************************************************************************)
(* C39: when the listener cannot be set up after the backend became ready, *)
(* start() returns False with the backend stopped: after a failed start()  *)
(* of the orchestrator no backend child is alive.                          *)
(***************************************************************************)
C39_NoChildAfterFailedStart ==
    StartFailedAfterReady => \A p \in Pids : ~Alive(p)


\* a call of stop_server() by c is executing
StopExecuting(c) == stopPc[c] \notin {"idle", "returned"}

\* no call of stop_server() is executing
NoStopExecuting == \A c \in Callers : ~StopExecuting(c)

\* a call of stop_server() returned to the owner without having been
\* skipped: it found a child tracked and the flag clear
StopRanToEnd ==
    /\ stopPc["main"] = "returned"
    /\ stopExit["main"] \notin {"no_process", "coalesced"}

(***************************************************************************)
(* C40: whenever no stop_server() call is executing the shutdown flag is   *)
(* false; so a stop_server() of the owner, also one that follows an        *)
(* earlier stop_server() and a later start_server(), is never skipped as   *)
(* already in progress, and when it returns the child it stopped is        *)
(* terminated.                                                             *)
(***************************************************************************)
C40_FlagClearBetweenStops ==
    /\ NoStopExecuting => ~shutdown_requested
    /\ stopExit["main"] # "coalesced"
    /\ StopRanToEnd => ~Alive(pid_local["main"])

====
